---- MODULE Spec2Model ----
(***************************************************************************)
(* Sieve action handlers of imap/lmtp_sieve.c (cyrus-imapd): redirect,     *)
(* reject, fileinto, vacation and the state they act on: the duplicate     *)
(* delivery database ("ledger"), the SMTP client, the mailbox list and the *)
(* per-recipient LMTP status.                                              *)
(*                                                                         *)
(* Every delivery execution (one recipient of one message, run_sieve) is a *)
(* process of Procs.  A handler is split exactly at its calls into shared  *)
(* state (duplicate_check, smtpclient_send, duplicate_mark, the mailbox    *)
(* store), so that two executions interleave as two lmtpd processes do.    *)
(* C strings are TLA+ strings; a NULL pointer is the value NULL; texts     *)
(* that the code scans byte by byte are sequences of byte values.          *)
(***************************************************************************)
EXTENDS Integers, Sequences, FiniteSets, TLC

VARIABLES
    pc,             \* [Procs -> position of the execution inside a handler]
    act,            \* [Procs -> the handler invocation in progress]
    log,            \* [Procs -> sequence of the finished handler invocations]
    edited,         \* [Procs -> script_data_t.edited_header]
    msg,            \* [Procs -> message_data_t: id, date, return_path]
    user,           \* [Procs -> mbname_userid(sd->mbname)]
    ledger,         \* duplicate delivery db: key -> time_t
    outbox,         \* messages handed to smtpclient_send with result 0
    now,            \* time(NULL)
    mailboxes,      \* the mailbox list: set of existing internal names
    appended,       \* messages appended to mailboxes: set of records
    annotations,    \* mailbox annotations written: set of <<mailbox, entry, value>>
    rcptstatus,     \* [Procs -> status slot of the current recipient]
    outgoing_count, \* [Procs -> global_outgoing_count of the process]
    config,         \* imapd.conf switches read by the handlers
    mfile,          \* [Procs -> the inbound message as spooled: m->f, m->size]
    hdrcache,       \* [Procs -> m->hdrcache: the header names, in order]
    stage           \* [Procs -> staged clones: made so far, live now]

vars == << pc, act, log, edited, msg, user, ledger, outbox, now,
           mailboxes, appended, annotations, rcptstatus, outgoing_count,
           config, mfile, hdrcache, stage >>

given == << msg, user, config, mfile >>           \* set when delivery starts
store == << mailboxes, appended, annotations >>   \* the mailbox store

----------------------------------------------------------------------------
(* Bounds of the model *)

MaxActions == 2     \* handler invocations per execution
MaxTime == 4        \* time(NULL) runs over 1..MaxTime

Procs == {"d1", "d2"}

NULL == "(null)"

SIEVE_OK == "SIEVE_OK"
SIEVE_FAIL == "SIEVE_FAIL"
SIEVE_DONE == "SIEVE_DONE"

NOERR == "0"
IMAP_MAILBOX_NONEXISTENT == "IMAP_MAILBOX_NONEXISTENT"
IMAP_MAILBOX_EXISTS == "IMAP_MAILBOX_EXISTS"
IMAP_QUOTA_EXCEEDED == "IMAP_QUOTA_EXCEEDED"
SMTP_OPEN_FAILED == "IMAP_SERVER_UNAVAILABLE"
SMTP_SEND_FAILED == "IMAP_REMOTE_DENIED"

----------------------------------------------------------------------------
(* The duplicate delivery database *)

\* duplicate_key_t {id, to, date}
DupKey(id, to, date) == << id, to, date >>

\* duplicate_check(): the stored time of the key, 0 when there is none
duplicate_check(db, key) == IF key \in DOMAIN db THEN db[key] ELSE 0

\* duplicate_mark(): store (overwrite) the time of the key
duplicate_mark(db, key, t) ==
    [k \in DOMAIN db \cup {key} |-> IF k = key THEN t ELSE db[k]]

\* make_sieve_db(): ".<user>.sieve."
make_sieve_db(u) == "." \o u \o ".sieve."

----------------------------------------------------------------------------
(* One handler invocation, as recorded in act and log *)

BlankEntry ==
    [ verb   |-> "",        \* the handler
      ctx    |-> << >>,     \* the action context the script engine passed
      key    |-> << >>,     \* the duplicate key the handler used, if any
      at     |-> 0,         \* time(NULL) read by the handler
      seen   |-> 0,         \* what duplicate_check returned
      staged |-> FALSE,     \* setup_special_delivery made a clone
      opened |-> FALSE,     \* smtpclient_open was called
      called |-> FALSE,     \* smtpclient_send was called
      smtp   |-> << >>,     \* the calls made on the transport, with results
      sendr  |-> NOERR,     \* result of send_forward / send_rejection
      marked |-> FALSE,     \* the handler called duplicate_mark on key
      target |-> NULL,      \* intname: the mailbox the handler delivers to
      r1     |-> NULL,      \* result of the first deliver_mailbox
      rc     |-> NULL,      \* result of autosieve_createfolder
      r2     |-> NULL,      \* result of the second deliver_mailbox
      path   |-> "",        \* reject: "inline" or "bounce"
      composed |-> FALSE,   \* a bounce or a response was composed
      outid  |-> NULL,      \* the Message-ID made for the bounce or response
      count  |-> -1,        \* global_outgoing_count as put in its Message-ID
      nappend |-> 0,        \* calls of deliver_mailbox
      filed  |-> FALSE,     \* do_fcc committed the copy to the mailbox
      ncreate |-> 0,        \* calls of mboxlist_createmailbox
      ret    |-> "",        \* SIEVE_OK / SIEVE_FAIL / SIEVE_DONE
      err    |-> NULL ]     \* *errmsg

Return(p, e) ==
    /\ log' = [log EXCEPT ![p] = Append(@, e)]
    /\ act' = [act EXCEPT ![p] = BlankEntry]
    /\ pc' = [pc EXCEPT ![p] = "idle"]

\* the script engine calls the next handler when the last one has returned
CanStart(p) == pc[p] = "idle"

----------------------------------------------------------------------------
(* Values the script engine and the environment hand to the handlers *)

Addrs == {"a@x", "b@x"}
AddrBooks == {"urn:ietf:params:sieve:addrbook:Default"}
AddrBookMembers == {"l1@x", "l2@x"}

\* sieve_redirect_context_t
RedirectContexts ==
    [addr : Addrs, is_ext_list : {FALSE}] \cup
    [addr : AddrBooks, is_ext_list : {TRUE}]

\* what smtpclient_open and smtpclient_send can answer: 0, -1 or an error
\* code.  The handlers take whatever code either call gives, so the two calls
\* draw from the same codes
SmtpOpenResults == {NOERR, "-1", SMTP_OPEN_FAILED, SMTP_SEND_FAILED}
SmtpSendResults == {NOERR, "-1", SMTP_OPEN_FAILED, SMTP_SEND_FAILED}

----------------------------------------------------------------------------
(* The inbound message, its header cache and the staged clone *)

\* the header names of the message as it came in
OrigHeaders == << "From", "Subject" >>

\* the spooled message: header block, body and size
OrigFile ==
    [hdrs |-> OrigHeaders, body |-> "text",
     size |-> Len(OrigHeaders) + Len("text")]

HeaderSet(h) == {h[i] : i \in DOMAIN h}

\* the positions of the header head in the cache, in order
Instances(h, head) == {i \in DOMAIN h : h[i] = head}

\* msg_getheader(): the instances of a header in the header cache
msg_getheader(h, head) == SelectSeq(h, LAMBDA x : x = head)

\* getheader()
getheader(p, phead) ==
    IF phead = NULL THEN [ret |-> SIEVE_FAIL, body |-> << >>]
    ELSE LET body == msg_getheader(hdrcache[p], phead)
         IN  [ret |-> IF body # << >> THEN SIEVE_OK ELSE SIEVE_FAIL,
              body |-> body]

\* spool_remove_header_instance(): the cache without the index-th instance
\* of the header, counted from the end when index is negative
spool_remove_header_instance(h, head, index) ==
    LET at == Instances(h, head)
        n == IF index > 0 THEN index ELSE Cardinality(at) + 1 + index
        gone == {i \in at : Cardinality({j \in at : j <= i}) = n}
    IN  [k \in 1..(Len(h) - Cardinality(gone)) |->
            IF \E g \in gone : g <= k THEN h[k + 1] ELSE h[k]]

\* mutant of addheader: a rejected call sets the flag all the same
addheader_flagged(h, head, body, index) ==
    IF head = NULL \/ body = NULL
      THEN [ret |-> SIEVE_FAIL, hdrcache |-> h, edited |-> TRUE]
      ELSE [ret |-> SIEVE_OK,
            hdrcache |-> IF index < 0 THEN Append(h, head)
                         ELSE << head >> \o h,
            edited |-> TRUE]

\* addheader(): the header goes to the end of m->hdrcache when index < 0,
\* to its front otherwise; sd->edited_header = 1
addheader(h, head, body, index) ==
    IF head = NULL \/ body = NULL
      THEN [ret |-> SIEVE_FAIL, hdrcache |-> h, edited |-> FALSE]
      ELSE [ret |-> SIEVE_OK,
            hdrcache |-> IF index < 0 THEN Append(h, head)
                         ELSE << head >> \o h,
            edited |-> TRUE]

\* deleteheader(): every instance of the header when index is 0, one
\* instance otherwise; sd->edited_header = 1
deleteheader(h, head, index) ==
    IF head = NULL
      THEN [ret |-> SIEVE_FAIL, hdrcache |-> h, edited |-> FALSE]
      ELSE [ret |-> SIEVE_OK,
            hdrcache |-> IF index = 0
                           THEN SelectSeq(h, LAMBDA x : x # head)
                           ELSE spool_remove_header_instance(h, head, index),
            edited |-> TRUE]

\* mutant of setup_special_delivery: a clone made earlier is used again
setup_special_delivery_once(st) ==
    IF st.made = 0 THEN [made |-> 1, live |-> st.live + 1] ELSE st

\* setup_special_delivery() with a stage file: one more clone
setup_special_delivery(st) ==
    [made |-> st.made + 1, live |-> st.live + 1]

\* mutant of cleanup_special_delivery: the stage is left behind
cleanup_special_delivery_leak(st) == st

\* cleanup_special_delivery(): stream, file and stage of the clone are gone
cleanup_special_delivery(st) == [st EXCEPT !.live = @ - 1]

\* "if (sd->edited_header) mdata = setup_special_delivery(mdata)", when the
\* stage file could be made
StageAtSetup(p) ==
    IF edited[p] THEN setup_special_delivery(stage[p]) ELSE stage[p]

\* "if (sd->edited_header) cleanup_special_delivery(mdata)"
StageAtCleanup(p, st) ==
    IF edited[p] THEN cleanup_special_delivery(st) ELSE st

\* mutant of MessageDelivered: the clone is written from the spooled header
MessageDeliveredFromFile(p) ==
    [hdrs |-> HeaderSet(mfile[p].hdrs), body |-> mfile[p].body]

\* the message a handler delivers or forwards: after an edit the clone, the
\* header cache dumped in front of the body of the spooled message
\* (setup_special_delivery), the spooled message otherwise
MessageDelivered(p) ==
    IF edited[p]
      THEN [hdrs |-> HeaderSet(hdrcache[p]), body |-> mfile[p].body]
      ELSE [hdrs |-> HeaderSet(mfile[p].hdrs), body |-> mfile[p].body]

\* send_forward(), "strip the Return-Path": the header lines that begin
\* with "Return-Path:" in any case are left out of the message handed to
\* the transport (the spellings a header name has in the model)
MessageForwarded(p) ==
    LET m == MessageDelivered(p)
    IN  [m EXCEPT !.hdrs = @ \ {"Return-Path", "return-path"}]

----------------------------------------------------------------------------
(* redirect *)

\* mutant of sieve_srs_forward: the address is rewritten without an engine
sieve_srs_forward_always(return_path, srs_ok) ==
    IF srs_ok THEN "SRS0=" \o return_path ELSE NULL

\* sieve_srs_forward(): the rewritten return path, NULL when SRS is off or fails
sieve_srs_forward(return_path, srs_ok) ==
    IF config.srs /\ srs_ok THEN "SRS0=" \o return_path ELSE NULL

\* send_forward(): envelope, recipients, then open and send.  The result
\* carries what the transport saw.
send_forward(rc, return_path, srs_ok, abook_ok, open_r, send_r) ==
    LET srs_return_path == sieve_srs_forward(return_path, srs_ok)
        from == IF srs_return_path # NULL THEN srs_return_path
                ELSE IF return_path # NULL /\ return_path # "" THEN return_path
                ELSE "<>"
        rcpts == IF rc.is_ext_list THEN AddrBookMembers ELSE {rc.addr}
    IN  IF rc.is_ext_list /\ ~abook_ok
          THEN [r |-> SIEVE_FAIL, opened |-> FALSE, called |-> FALSE,
                from |-> from, rcpts |-> {}, calls |-> << >>]
        ELSE IF open_r # NOERR
          THEN \* "if (r) goto done"
               [r |-> open_r, opened |-> TRUE, called |-> FALSE,
                from |-> from, rcpts |-> rcpts,
                calls |-> << << "smtpclient_open", open_r >> >>]
        ELSE [r |-> send_r, opened |-> TRUE, called |-> TRUE,
              from |-> from, rcpts |-> rcpts,
              calls |-> << << "smtpclient_open", open_r >>,
                           << "smtpclient_send", send_r >>,
                           << "smtpclient_close", NOERR >> >>]

\* mutant of RedirectKey: the date of the message is left out of the key
RedirectKeyNoDate(m, rc, u) ==
    DupKey(m.id \o "-" \o rc.addr, make_sieve_db(u), "")

\* the duplicate key of a redirect: id "<msgid>-<addr>", to the sieve db of
\* the script owner, date the message's date
RedirectKey(m, rc, u) ==
    DupKey(m.id \o "-" \o rc.addr, make_sieve_db(u), m.date)

\* mutant of LedgerAfterCheck: the lookup also records the key
LedgerAfterCheckAndSet(db, key, t) == duplicate_mark(db, key, t)

\* sieve_redirect(), "let's see if we've redirected this message before":
\* the lookup reads the database and leaves it as it is
LedgerAfterCheck(db, key, t) == db

\* sieve_redirect(), from entry to the duplicate_check
RedirectCheck(p, rc) ==
    /\ CanStart(p)
    /\ LET m == msg[p]
           key == RedirectKey(m, rc, user[p])
           t == IF m.id # NULL THEN duplicate_check(ledger, key) ELSE 0
           e == [BlankEntry EXCEPT !.verb = "redirect", !.ctx = rc,
                                   !.key = IF m.id # NULL THEN key ELSE << >>,
                                   !.seen = t]
       IN  /\ ledger' = IF m.id # NULL THEN LedgerAfterCheck(ledger, key, now)
                                       ELSE ledger
           /\ IF m.id # NULL /\ t # 0
                THEN Return(p, [e EXCEPT !.ret = SIEVE_OK])
                ELSE /\ pc' = [pc EXCEPT ![p] = "redirect_send"]
                     /\ act' = [act EXCEPT ![p] = e]
                     /\ log' = log
    /\ UNCHANGED << given, hdrcache, stage, store, edited, outbox, now,
                    rcptstatus, outgoing_count >>

\* mutant of RedirectSucceeded: every result of send_forward counts as sent
RedirectSucceededAlways(res) == TRUE

\* sieve_redirect(), "if (res == 0)"
RedirectSucceeded(res) == res = NOERR

\* sieve_redirect(), the error message of a failed send_forward
RedirectErrmsg(res) ==
    IF res = "-1" THEN "Could not spawn sendmail process" ELSE res

\* sieve_redirect(), from setup_special_delivery to the result of
\* send_forward: the clone is made when a header was edited, the message is
\* sent, the clone is removed
RedirectSend(p, stage_ok, srs_ok, abook_ok, open_r, send_r) ==
    /\ pc[p] = "redirect_send"
    /\ LET e == act[p]
           sf == send_forward(e.ctx, msg[p].return_path, srs_ok, abook_ok,
                              open_r, send_r)
           e2 == [e EXCEPT !.staged = edited[p], !.opened = sf.opened,
                           !.called = sf.called, !.sendr = sf.r,
                           !.smtp = sf.calls]
       IN  IF edited[p] /\ ~stage_ok
             THEN \* setup_special_delivery returned NULL
                  /\ outbox' = outbox
                  /\ stage' = stage
                  /\ Return(p, [e EXCEPT !.ret = SIEVE_FAIL])
             ELSE /\ stage' = [stage EXCEPT ![p] =
                                  StageAtCleanup(p, StageAtSetup(p))]
                  /\ outbox' = IF sf.r = NOERR
                                 THEN outbox \cup
                                      {[by |-> p, n |-> Len(log[p]) + 1,
                                        kind |-> "forward", from |-> sf.from,
                                        rcpts |-> sf.rcpts, id |-> msg[p].id,
                                        dkey |-> e.key, clone |-> edited[p],
                                        given |-> MessageDelivered(p),
                                        content |-> MessageForwarded(p),
                                        srs |-> srs_ok]}
                                 ELSE outbox
                  /\ IF RedirectSucceeded(sf.r)
                       THEN /\ pc' = [pc EXCEPT ![p] = "redirect_mark"]
                            /\ act' = [act EXCEPT ![p] = e2]
                            /\ log' = log
                       ELSE Return(p, [e2 EXCEPT !.ret = SIEVE_FAIL,
                                                 !.err = RedirectErrmsg(sf.r)])
    /\ UNCHANGED << given, hdrcache, store, edited, ledger, now, rcptstatus,
                    outgoing_count >>

\* mutant of RedirectMarked: the redirect is never recorded
RedirectMarkedNever(db, e, t) == db

\* mutant of RedirectMarked: the mark is written whether or not a key was
\* built
RedirectMarkedUnkeyed(db, e, t) == duplicate_mark(db, e.key, t)

\* sieve_redirect(), "mark this message as redirected":
\* if (sievedb) duplicate_mark(&dkey, time(NULL), 0)
RedirectMarked(db, e, t) ==
    IF e.key # << >> THEN duplicate_mark(db, e.key, t) ELSE db

\* sieve_redirect(), the res == 0 branch
RedirectMark(p) ==
    /\ pc[p] = "redirect_mark"
    /\ LET e == act[p]
       IN  /\ ledger' = RedirectMarked(ledger, e, now)
           /\ Return(p, [e EXCEPT !.marked = e.key # << >>,
                                  !.ret = SIEVE_OK])
    /\ UNCHANGED << given, hdrcache, stage, store, edited, outbox, now,
                    rcptstatus, outgoing_count >>

----------------------------------------------------------------------------
(* Texts as sequences of bytes *)

CR == 13
LF == 10

\* isascii()
isascii(c) == c < 128

\* the bytes of "550-5.7.1 " and of "550 5.7.1 "
Cont550 == << 53, 53, 48, 45, 53, 46, 55, 46, 49, 32 >>
Last550 == << 53, 53, 48, 32, 53, 46, 55, 46, 49, 32 >>

\* the bytes printf("%s") writes for a NULL pointer with glibc: "(null)"
NullText == << 40, 110, 117, 108, 108, 41 >>

\* hex[]: "0123456789ABCDEF" as bytes
HexByte(n) == IF n < 10 THEN 48 + n ELSE 55 + n

RECURSIVE charset_qpencode_mimebody(_)
\* charset_qpencode_mimebody(): bytes outside ASCII and '=' become =XX;
\* line breaks stay (lines here are shorter than the 76 columns at which a
\* soft line break is inserted)
charset_qpencode_mimebody(t) ==
    IF t = << >> THEN << >>
    ELSE LET c == Head(t)
         IN  (IF ~isascii(c) \/ c = 61
                THEN << 61, HexByte(c \div 16), HexByte(c % 16) >>
                ELSE << c >>)
             \o charset_qpencode_mimebody(Tail(t))

RECURSIVE tok_split(_, _)
\* tok_initm(&tok, msg, "\r\n", 0) and tok_next() until NULL: the maximal
\* runs of bytes that are neither CR nor LF, in order (strtok_r: empty
\* tokens are not returned).  cur is the token being collected.
tok_split(t, cur) ==
    IF t = << >> THEN (IF cur = << >> THEN << >> ELSE << cur >>)
    ELSE IF Head(t) \in {CR, LF}
      THEN (IF cur = << >> THEN << >> ELSE << cur >>) \o tok_split(Tail(t), << >>)
      ELSE tok_split(Tail(t), Append(cur, Head(t)))

\* the decimal digits of a number, as printf("%d") writes them
Digit(n) == CASE n = 0 -> "0" [] n = 1 -> "1" [] n = 2 -> "2" [] n = 3 -> "3"
              [] n = 4 -> "4" [] n = 5 -> "5" [] n = 6 -> "6" [] n = 7 -> "7"
              [] n = 8 -> "8" [] n = 9 -> "9"

RECURSIVE ToStr(_)
ToStr(n) == IF n < 10 THEN Digit(n) ELSE ToStr(n \div 10) \o Digit(n % 10)

\* time_to_rfc5322(): the date string of a time
time_to_rfc5322(t) == "date-" \o ToStr(t)

\* getpid() of the process that runs the execution
getpid(p) == IF p = "d1" THEN "101" ELSE "102"

config_servername == "mx.example"

----------------------------------------------------------------------------
(* reject *)

\* the reason texts: up to MaxAtoms pieces, each a letter, a byte outside
\* ASCII or a line break
MaxAtoms == 4

Atoms == { << 97 >>, << 233 >>, << CR, LF >> }

RECURSIVE TextsOf(_)
TextsOf(n) ==
    IF n = 0 THEN { << >> }
    ELSE LET shorter == TextsOf(n - 1)
         IN  shorter \cup {a \o t : a \in Atoms, t \in shorter}

ReasonTexts == TextsOf(MaxAtoms)

\* sieve_reject_context_t
RejectContexts == [msg : ReasonTexts, is_extended : BOOLEAN]

\* sieve_reject(), the scan of the reason for a byte outside US-ASCII
need_encode(text) == \E i \in DOMAIN text : ~isascii(text[i])

\* mutant of InlineReject: the reason is not looked at
InlineRejectAnyText(rc) == rc.is_extended \/ config.lmtp_reject

\* sieve_reject(), "if (rc->is_extended || (config_getswitch(
\* IMAPOPT_SIEVE_USE_LMTP_REJECT) && !need_encode))"
InlineReject(rc) ==
    rc.is_extended \/ (config.lmtp_reject /\ ~need_encode(rc.msg))

\* sieve_reject(), the loop over the tokens: "550-5.7.1 <cur>\r\n" for every
\* token that has a next one, "550 5.7.1 <cur>\r\n" for the last.  Without
\* any token cur is NULL and nulltext is what "%s" writes for it.
RejectResponse(lines, nulltext) ==
    IF lines = << >> THEN << Last550 \o nulltext \o << CR, LF >> >>
    ELSE [i \in 1..Len(lines) |->
            (IF i < Len(lines) THEN Cont550 ELSE Last550)
            \o lines[i] \o << CR, LF >>]

\* mutant of post_increment: the counter stays as it is
post_increment_stuck(n) == n

\* "global_outgoing_count++": the counter after a Message-ID was made up
post_increment(n) == n + 1

\* the Message-ID send_rejection and send_response make up
OutgoingId(p, t) ==
    "<cmu-sieve-" \o getpid(p) \o "-" \o ToStr(t) \o "-"
       \o ToStr(outgoing_count[p]) \o "@" \o config_servername \o ">"

\* mutant of smtp_calls: the session is closed after a successful send only
smtp_calls_unclosed(open_r, send_r) ==
    IF open_r # NOERR THEN << << "smtpclient_open", open_r >> >>
    ELSE IF send_r # NOERR
      THEN << << "smtpclient_open", open_r >>,
              << "smtpclient_send", send_r >> >>
    ELSE << << "smtpclient_open", open_r >>, << "smtpclient_send", send_r >>,
            << "smtpclient_close", NOERR >> >>

\* send_rejection() and send_response(), "r = smtpclient_open(&sm); if (!r)
\* { .. r = smtpclient_send(..); } smtpclient_close(&sm);": the calls on the
\* transport and their results
smtp_calls(open_r, send_r) ==
    IF open_r # NOERR
      THEN << << "smtpclient_open", open_r >>,
              << "smtpclient_close", NOERR >> >>
      ELSE << << "smtpclient_open", open_r >>,
              << "smtpclient_send", send_r >>,
              << "smtpclient_close", NOERR >> >>

\* send_rejection(): the result of open and send
send_rejection(open_r, send_r) == IF open_r # NOERR THEN open_r ELSE send_r

\* mutant of RejectDropped: a bounce to the empty return path is sent
RejectDroppedNever(return_path) == FALSE

\* sieve_reject(), "if (strlen(md->return_path) == 0)"
RejectDropped(return_path) == return_path = ""

\* sieve_reject(), up to the duplicate_mark of send_rejection: the inline
\* answer and the returns without a bounce are whole; for a bounce the
\* Message-ID is made and marked in the duplicate database, and the mail is
\* yet to be sent
SieveReject(p, rc, nulltext) ==
    /\ CanStart(p)
    /\ LET m == msg[p]
           e == [BlankEntry EXCEPT !.verb = "reject", !.ctx = rc, !.at = now]
           text == IF need_encode(rc.msg)
                     THEN charset_qpencode_mimebody(rc.msg) ELSE rc.msg
           lines == tok_split(text, << >>)
           outid == OutgoingId(p, now)
       IN  IF InlineReject(rc)
             THEN /\ (lines # << >> => nulltext = NullText)
                  /\ IF lines = << >> /\ nulltext = << >>
                       THEN \* printf("%s", NULL) faulted
                            /\ pc' = [pc EXCEPT ![p] = "crashed"]
                            /\ act' = [act EXCEPT ![p] =
                                          [e EXCEPT !.path = "inline"]]
                            /\ UNCHANGED << log, rcptstatus >>
                       ELSE /\ rcptstatus' = [rcptstatus EXCEPT ![p] =
                                  [status |-> "LMTP_MESSAGE_REJECTED",
                                   resp |-> RejectResponse(lines, nulltext)]]
                            /\ Return(p, [e EXCEPT !.path = "inline",
                                                   !.ret = SIEVE_OK])
                  /\ UNCHANGED << ledger, outbox, outgoing_count >>
           ELSE IF m.return_path = NULL
             THEN /\ Return(p, [e EXCEPT !.path = "bounce",
                                         !.ret = SIEVE_FAIL,
                                         !.err = "No return-path for reply"])
                  /\ UNCHANGED << ledger, outbox, outgoing_count, rcptstatus >>
           ELSE IF RejectDropped(m.return_path)
             THEN /\ Return(p, [e EXCEPT !.path = "bounce", !.ret = SIEVE_OK])
                  /\ UNCHANGED << ledger, outbox, outgoing_count, rcptstatus >>
           ELSE \* send_rejection()
                /\ nulltext = NullText
                /\ outgoing_count' = [outgoing_count EXCEPT ![p] = post_increment(@)]
                /\ ledger' = duplicate_mark(ledger,
                                 DupKey(outid, make_sieve_db(user[p]),
                                        time_to_rfc5322(now)), now)
                /\ pc' = [pc EXCEPT ![p] = "reject_send"]
                /\ act' = [act EXCEPT ![p] =
                              [e EXCEPT !.path = "bounce", !.composed = TRUE,
                                        !.count = outgoing_count[p],
                                        !.outid = outid]]
                /\ UNCHANGED << log, outbox, rcptstatus >>
    /\ UNCHANGED << given, hdrcache, stage, store, edited, now >>

\* send_rejection(), "Send the mail", and the end of sieve_reject
RejectSend(p, open_r, send_r) ==
    /\ pc[p] = "reject_send"
    /\ LET e == act[p]
           r == send_rejection(open_r, send_r)
       IN  /\ outbox' = IF r = NOERR
                          THEN outbox \cup
                               {[by |-> p, n |-> Len(log[p]) + 1,
                                 kind |-> "bounce", from |-> "<>",
                                 rcpts |-> {msg[p].return_path},
                                 id |-> e.outid,
                                 dkey |-> << >>, clone |-> FALSE]}
                          ELSE outbox
           /\ Return(p, [e EXCEPT
                           !.opened = TRUE, !.called = (open_r = NOERR),
                           !.smtp = smtp_calls(open_r, send_r),
                           !.sendr = r,
                           !.ret = IF r = NOERR THEN SIEVE_OK ELSE SIEVE_FAIL,
                           !.err = IF r = NOERR THEN NULL
                                   ELSE RedirectErrmsg(r)])
    /\ UNCHANGED << given, hdrcache, stage, store, edited, ledger, now,
                    rcptstatus, outgoing_count >>

----------------------------------------------------------------------------
(* The mailbox store *)

IMAP_PERMISSION_DENIED == "IMAP_PERMISSION_DENIED"

Folders == {"Junk", "Work"}
SpecialUses == {"\\Junk"}

\* sieve_fileinto_context_t
FileintoContexts ==
    [mailbox : Folders, specialuse : {NULL} \cup SpecialUses,
     do_create : BOOLEAN]

\* mboxname_from_external(): the internal name of a folder of the user
mboxname_from_external(extname, u) ==
    IF u = NULL THEN extname ELSE "user." \o u \o "." \o extname

\* mboxname_user_mbox(): the internal name of a folder below the user's INBOX
mboxname_user_mbox(u, name) == "user." \o u \o "." \o name

\* mboxlist_lookup(): 0 when the mailbox is in the mailbox list
mboxlist_lookup(intname) ==
    IF intname \in mailboxes THEN NOERR ELSE IMAP_MAILBOX_NONEXISTENT

\* deliver_mailbox(): what the append can answer for a mailbox
DeliverResults(intname) ==
    IF intname \in mailboxes THEN {NOERR, IMAP_QUOTA_EXCEEDED}
    ELSE {IMAP_MAILBOX_NONEXISTENT}

\* mboxlist_createmailbox(): what the creation can answer for a name
CreateResults(intname) ==
    IF intname \in mailboxes THEN {IMAP_MAILBOX_EXISTS}
    ELSE {NOERR, IMAP_PERMISSION_DENIED}

\* the message a successful deliver_mailbox leaves in the mailbox
Delivered(p, intname) ==
    [mbox |-> intname, by |-> p, n |-> Len(log[p]) + 1, clone |-> edited[p],
     content |-> MessageDelivered(p)]

\* another client of the store deletes a mailbox
StoreDelete(mb) ==
    /\ mb \in mailboxes
    /\ mailboxes' = mailboxes \ {mb}
    /\ UNCHANGED << given, hdrcache, stage, pc, act, log, edited, ledger,
                    outbox, now, appended, annotations, rcptstatus,
                    outgoing_count >>

----------------------------------------------------------------------------
(* fileinto *)

\* mutant of AutocreatePermitted: the fileinto :create flag is ignored
AutocreatePermittedNoFlag(userid, internalname, createsievefolder) ==
    /\ userid # NULL /\ internalname # NULL
    /\ \/ config.anysievefolder
       \/ \E n \in DOMAIN config.autocreate_folders :
             mboxname_user_mbox(userid, config.autocreate_folders[n])
                = internalname

\* autosieve_createfolder(), up to "if (createsievefolder)": is the folder
\* one that may be created
AutocreatePermitted(userid, internalname, createsievefolder) ==
    /\ userid # NULL /\ internalname # NULL
    /\ \/ config.anysievefolder
       \/ \E n \in DOMAIN config.autocreate_folders :
             mboxname_user_mbox(userid, config.autocreate_folders[n])
                = internalname
       \/ createsievefolder

\* mutant of FileintoTarget: the special-use folder is never looked up
FileintoTargetLiteral(fc, u) == mboxname_from_external(fc.mailbox, u)

\* sieve_fileinto(), the folder delivered to: the special-use name when it
\* was asked for and its lookup succeeds, the named mailbox otherwise
FileintoTarget(fc, u) ==
    IF fc.specialuse # NULL
         /\ mboxlist_lookup(mboxname_from_external(fc.specialuse, u)) = NOERR
      THEN mboxname_from_external(fc.specialuse, u)
      ELSE mboxname_from_external(fc.mailbox, u)

\* sieve_fileinto(), the end: the clone is removed, the result is SIEVE_OK
\* or SIEVE_FAIL with the error message of ret
FileintoReturn(p, e, ret) ==
    Return(p, [e EXCEPT !.ret = IF ret = NOERR THEN SIEVE_OK ELSE SIEVE_FAIL,
                        !.err = IF ret = NOERR THEN NULL ELSE ret])

\* mutant of NeedsAutocreate: every failed delivery tries to create
NeedsAutocreateOnAnyError(ret) == ret # NOERR

\* sieve_fileinto(), "if (ret == IMAP_MAILBOX_NONEXISTENT)"
NeedsAutocreate(ret) == ret = IMAP_MAILBOX_NONEXISTENT

\* sieve_fileinto(), from entry to the choice of the folder: the clone is
\* made when a header was edited, the special-use folder is looked up
FileintoLookup(p, fc, stage_ok) ==
    /\ CanStart(p)
    /\ LET intname == FileintoTarget(fc, user[p])
           e0 == [BlankEntry EXCEPT !.verb = "fileinto", !.ctx = fc]
           e == [e0 EXCEPT !.staged = edited[p], !.target = intname]
       IN  IF edited[p] /\ ~stage_ok
             THEN \* setup_special_delivery returned NULL
                  /\ Return(p, [e0 EXCEPT !.ret = SIEVE_FAIL])
                  /\ stage' = stage
             ELSE /\ stage' = [stage EXCEPT ![p] = StageAtSetup(p)]
                  /\ pc' = [pc EXCEPT ![p] = "fileinto_deliver"]
                  /\ act' = [act EXCEPT ![p] = e]
                  /\ log' = log
    /\ UNCHANGED << given, hdrcache, edited, ledger, outbox, now, store,
                    rcptstatus, outgoing_count >>

\* sieve_fileinto(), the first deliver_mailbox and what follows when the
\* folder is not missing
FileintoDeliver(p, r) ==
    /\ pc[p] = "fileinto_deliver"
    /\ LET e == [act[p] EXCEPT !.r1 = r, !.nappend = 1]
       IN  /\ r \in DeliverResults(e.target)
           /\ stage' = [stage EXCEPT ![p] =
                           IF NeedsAutocreate(r) THEN @
                           ELSE StageAtCleanup(p, @)]
           /\ appended' = IF r = NOERR
                            THEN appended \cup {Delivered(p, e.target)}
                            ELSE appended
           /\ IF NeedsAutocreate(r)
                THEN /\ pc' = [pc EXCEPT ![p] = "fileinto_create"]
                     /\ act' = [act EXCEPT ![p] = e]
                     /\ log' = log
                ELSE FileintoReturn(p, e, r)
    /\ UNCHANGED << given, hdrcache, edited, ledger, outbox, now, mailboxes,
                    annotations, rcptstatus, outgoing_count >>

\* sieve_fileinto(), the call of autosieve_createfolder
FileintoCreate(p, r) ==
    /\ pc[p] = "fileinto_create"
    /\ LET e == act[p]
           fc == e.ctx
           may == AutocreatePermitted(user[p], e.target, fc.do_create)
           ret == IF may THEN r ELSE IMAP_MAILBOX_NONEXISTENT
           e2 == [e EXCEPT !.rc = ret,
                           !.ncreate = IF may THEN 1 ELSE 0]
       IN  /\ may => r \in CreateResults(e.target)
           /\ ~may => r = NOERR
           /\ mailboxes' = IF may /\ r = NOERR
                             THEN mailboxes \cup {e.target} ELSE mailboxes
           /\ stage' = [stage EXCEPT ![p] =
                           IF ret = NOERR THEN @ ELSE StageAtCleanup(p, @)]
           /\ IF ret = NOERR
                THEN /\ pc' = [pc EXCEPT ![p] =
                                  IF fc.specialuse # NULL
                                    THEN "fileinto_annotate"
                                    ELSE "fileinto_retry"]
                     /\ act' = [act EXCEPT ![p] = e2]
                     /\ log' = log
                ELSE FileintoReturn(p, e2, ret)
    /\ UNCHANGED << given, hdrcache, edited, ledger, outbox, now, appended,
                    annotations, rcptstatus, outgoing_count >>

\* sieve_fileinto(), "Attempt to add special-use flag to newly created
\* mailbox": the annotation is written when specialuse_validate accepts the
\* name
FileintoAnnotate(p, valid) ==
    /\ pc[p] = "fileinto_annotate"
    /\ annotations' =
          IF valid
            THEN annotations \cup
                 {<< act[p].target, "/specialuse", act[p].ctx.specialuse >>}
            ELSE annotations
    /\ pc' = [pc EXCEPT ![p] = "fileinto_retry"]
    /\ UNCHANGED << given, hdrcache, edited, ledger, outbox, now, mailboxes,
                    appended, stage, act, log, rcptstatus, outgoing_count >>

\* sieve_fileinto(), "Try to deliver the mail again"
FileintoRetry(p, r) ==
    /\ pc[p] = "fileinto_retry"
    /\ LET e == act[p]
           e2 == [e EXCEPT !.r2 = r, !.nappend = 2]
       IN  /\ r \in DeliverResults(e.target)
           /\ appended' = IF r = NOERR
                            THEN appended \cup {Delivered(p, e.target)}
                            ELSE appended
           /\ stage' = [stage EXCEPT ![p] = StageAtCleanup(p, @)]
           /\ FileintoReturn(p, e2, r)
    /\ UNCHANGED << given, hdrcache, edited, ledger, outbox, now, mailboxes,
                    annotations, rcptstatus, outgoing_count >>

----------------------------------------------------------------------------
(* vacation *)

MaxWindow == 2          \* the longest vacation window, in ticks of the clock

\* hex[]: one digit of "0123456789ABCDEF"
HexDigit(n) == IF n < 10 THEN Digit(n)
               ELSE CASE n = 10 -> "A" [] n = 11 -> "B" [] n = 12 -> "C"
                      [] n = 13 -> "D" [] n = 14 -> "E" [] n = 15 -> "F"

RECURSIVE HexId(_)
\* autorespond(), the loop that writes arc->hash as hexadecimal digits
HexId(hash) ==
    IF hash = << >> THEN ""
    ELSE HexDigit(Head(hash) \div 16) \o HexDigit(Head(hash) % 16)
           \o HexId(Tail(hash))

\* the hashes the script engine computes for a vacation (shortened)
Hashes == { << 10, 171 >>, << 171, 10 >> }

\* sieve_autorespond_context_t
AutorespondContexts == [hash : Hashes, seconds : 1..MaxWindow]

\* autorespond(), the key: the hexadecimal id, the userid of the script's
\* owner, no date
AutorespondKey(arc, u) == DupKey(HexId(arc.hash), u, "")

\* mutant of AutorespondAllowed: a key once marked suppresses for ever
AutorespondAllowedIfUnmarked(t, tnow) == t = 0

\* mutant of AutorespondAllowed: a response at the very expiry is suppressed
AutorespondAllowedAfter(t, tnow) == IF t # 0 THEN tnow > t ELSE TRUE

\* autorespond(), "if (t) { if (now >= t) SIEVE_OK else SIEVE_DONE }
\* else SIEVE_OK"
AutorespondAllowed(t, tnow) == IF t # 0 THEN tnow >= t ELSE TRUE

\* mutant of AutorespondCheck: the check of an allowed response sets the mark
\* in the same step
AutorespondCheckAndSet(p, arc) ==
    /\ CanStart(p)
    /\ LET key == AutorespondKey(arc, user[p])
           t == duplicate_check(ledger, key)
           e == [BlankEntry EXCEPT !.verb = "autorespond", !.ctx = arc,
                                   !.key = key, !.at = now, !.seen = t]
       IN  IF AutorespondAllowed(t, now)
             THEN /\ pc' = [pc EXCEPT ![p] = "autorespond_mark"]
                  /\ act' = [act EXCEPT ![p] = e]
                  /\ log' = log
                  /\ ledger' = duplicate_mark(ledger, key, now + arc.seconds)
             ELSE /\ Return(p, [e EXCEPT !.ret = SIEVE_DONE])
                  /\ ledger' = ledger
    /\ UNCHANGED << given, hdrcache, stage, store, edited, outbox,
                    now, rcptstatus, outgoing_count >>

\* autorespond(), from entry to the decision
AutorespondCheck(p, arc) ==
    /\ CanStart(p)
    /\ LET key == AutorespondKey(arc, user[p])
           t == duplicate_check(ledger, key)
           e == [BlankEntry EXCEPT !.verb = "autorespond", !.ctx = arc,
                                   !.key = key, !.at = now, !.seen = t]
       IN  IF AutorespondAllowed(t, now)
             THEN /\ pc' = [pc EXCEPT ![p] = "autorespond_mark"]
                  /\ act' = [act EXCEPT ![p] = e]
                  /\ log' = log
             ELSE Return(p, [e EXCEPT !.ret = SIEVE_DONE])
    /\ UNCHANGED << given, hdrcache, stage, store, edited, ledger, outbox,
                    now, rcptstatus, outgoing_count >>

\* mutant of AutorespondMarked: autorespond leaves the mark to send_response
AutorespondMarkedLater(db, e) == db

\* autorespond(), "duplicate_mark(&dkey, now + arc->seconds, 0)"
AutorespondMarked(db, e) == duplicate_mark(db, e.key, e.at + e.ctx.seconds)

\* autorespond(), "if (ret == SIEVE_OK)" to the return
AutorespondMark(p) ==
    /\ pc[p] = "autorespond_mark"
    /\ ledger' = AutorespondMarked(ledger, act[p])
    /\ Return(p, [act[p] EXCEPT !.marked = TRUE, !.ret = SIEVE_OK])
    /\ UNCHANGED << given, hdrcache, stage, store, edited, outbox, now,
                    rcptstatus, outgoing_count >>

Autoresponds(p) == {i \in DOMAIN log[p] : log[p][i].verb = "autorespond"}

Responses(p) == {i \in DOMAIN log[p] : log[p][i].verb = "send_response"}

\* the script engine calls send_response for a vacation whose autorespond
\* returned SIEVE_OK, and for no other
ResponseDue(p) ==
    Cardinality({i \in Autoresponds(p) : log[p][i].ret = SIEVE_OK})
        > Cardinality(Responses(p))

\* sieve_send_response_context_t: the address answered and the fcc mailbox
\* (fcc.mailbox is NULL when the script asked for no copy)
FccContexts == [mailbox : {NULL, "Work", "Sent"},
                specialuse : {NULL, "\\Junk"}, do_create : BOOLEAN]

ResponseContexts == [addr : {"s@x"}, fcc : FccContexts]

\* send_response(): the response is composed and handed to the transport;
\* a response the transport refused is SIEVE_FAIL
SendResponse(p, src, open_r, send_r) ==
    /\ CanStart(p)
    /\ LET outid == OutgoingId(p, now)
           r == IF open_r # NOERR THEN open_r ELSE send_r
           e == [BlankEntry EXCEPT !.verb = "send_response", !.ctx = src,
                                   !.at = now, !.composed = TRUE,
                                   !.outid = outid,
                                   !.count = outgoing_count[p],
                                   !.opened = TRUE,
                                   !.called = (open_r = NOERR),
                                   !.smtp = smtp_calls(open_r, send_r),
                                   !.sendr = r]
       IN  /\ outgoing_count' = [outgoing_count EXCEPT ![p] = post_increment(@)]
           /\ IF r = NOERR
                THEN /\ outbox' = outbox \cup
                          {[by |-> p, n |-> Len(log[p]) + 1,
                            kind |-> "response", from |-> "<>",
                            rcpts |-> {src.addr}, id |-> outid,
                            dkey |-> << >>, clone |-> FALSE]}
                     /\ pc' = [pc EXCEPT ![p] = "response_mark"]
                     /\ act' = [act EXCEPT ![p] = e]
                     /\ log' = log
                ELSE /\ outbox' = outbox
                     /\ Return(p, [e EXCEPT !.ret = SIEVE_FAIL, !.err = r])
    /\ UNCHANGED << given, hdrcache, stage, edited, now, ledger, store,
                    rcptstatus >>

\* send_response(), "if (r == 0)": the response is marked in the duplicate
\* database under the time read when it was composed
ResponseMark(p) ==
    /\ pc[p] = "response_mark"
    /\ LET key == DupKey(act[p].outid, make_sieve_db(user[p]), msg[p].date)
           e == [act[p] EXCEPT !.key = key, !.marked = TRUE]
       IN  /\ ledger' = duplicate_mark(ledger, key, e.at)
           /\ IF e.ctx.fcc.mailbox # NULL
                THEN /\ pc' = [pc EXCEPT ![p] = "fcc_lookup"]
                     /\ act' = [act EXCEPT ![p] = e]
                     /\ log' = log
                ELSE Return(p, [e EXCEPT !.ret = SIEVE_OK])
    /\ UNCHANGED << given, hdrcache, stage, edited, now, outbox, store,
                    rcptstatus, outgoing_count >>

\* do_fcc(), the choice of intname: the special-use folder when the lookup
\* finds it, the named mailbox otherwise
FccLookup(p) ==
    /\ pc[p] = "fcc_lookup"
    /\ act' = [act EXCEPT ![p].target = FileintoTarget(act[p].ctx.fcc, user[p])]
    /\ pc' = [pc EXCEPT ![p] = "fcc_find"]
    /\ UNCHANGED << given, hdrcache, stage, edited, now, ledger, outbox,
                    store, log, rcptstatus, outgoing_count >>

\* do_fcc(), "r = mboxlist_lookup(intname, NULL, NULL)"
FccFind(p) ==
    /\ pc[p] = "fcc_find"
    /\ pc' = [pc EXCEPT ![p] =
                 IF mboxlist_lookup(act[p].target) = IMAP_MAILBOX_NONEXISTENT
                   THEN "fcc_create" ELSE "fcc_append"]
    /\ act' = [act EXCEPT ![p].r1 = mboxlist_lookup(act[p].target)]
    /\ UNCHANGED << given, hdrcache, stage, edited, now, ledger, outbox,
                    store, log, rcptstatus, outgoing_count >>

\* mutant of FccCreate: a missing fcc folder is created whatever the policy
FccCreateAlways(p, r) ==
    /\ pc[p] = "fcc_create"
    /\ LET e == [act[p] EXCEPT !.rc = r, !.ncreate = 1]
       IN  /\ r \in CreateResults(e.target)
           /\ mailboxes' = IF r = NOERR
                             THEN mailboxes \cup {e.target} ELSE mailboxes
           /\ IF r = NOERR
                THEN /\ pc' = [pc EXCEPT ![p] =
                                  IF e.ctx.fcc.specialuse # NULL
                                    THEN "fcc_annotate" ELSE "fcc_append"]
                     /\ act' = [act EXCEPT ![p] = e]
                     /\ log' = log
                ELSE Return(p, [e EXCEPT !.ret = SIEVE_OK])
    /\ UNCHANGED << given, hdrcache, stage, edited, now, ledger, outbox,
                    appended, annotations, rcptstatus, outgoing_count >>

\* do_fcc(), the call of autosieve_createfolder for a missing folder; a
\* folder that could not be made ends do_fcc, and send_response goes on to
\* "ret = SIEVE_OK"
FccCreate(p, r) ==
    /\ pc[p] = "fcc_create"
    /\ LET fcc == act[p].ctx.fcc
           may == AutocreatePermitted(user[p], act[p].target, fcc.do_create)
           ret == IF may THEN r ELSE IMAP_MAILBOX_NONEXISTENT
           e == [act[p] EXCEPT !.rc = ret, !.ncreate = IF may THEN 1 ELSE 0]
       IN  /\ may => r \in CreateResults(e.target)
           /\ ~may => r = NOERR
           /\ mailboxes' = IF may /\ r = NOERR
                             THEN mailboxes \cup {e.target} ELSE mailboxes
           /\ IF ret = NOERR
                THEN /\ pc' = [pc EXCEPT ![p] =
                                  IF fcc.specialuse # NULL
                                    THEN "fcc_annotate" ELSE "fcc_append"]
                     /\ act' = [act EXCEPT ![p] = e]
                     /\ log' = log
                ELSE Return(p, [e EXCEPT !.ret = SIEVE_OK])
    /\ UNCHANGED << given, hdrcache, stage, edited, now, ledger, outbox,
                    appended, annotations, rcptstatus, outgoing_count >>

\* do_fcc(), "Attempt to add special-use flag to newly created mailbox"
FccAnnotate(p, valid) ==
    /\ pc[p] = "fcc_annotate"
    /\ annotations' =
          IF valid
            THEN annotations \cup
                 {<< act[p].target, "/specialuse",
                     act[p].ctx.fcc.specialuse >>}
            ELSE annotations
    /\ pc' = [pc EXCEPT ![p] = "fcc_append"]
    /\ UNCHANGED << given, hdrcache, stage, edited, now, ledger, outbox,
                    mailboxes, appended, act, log, rcptstatus,
                    outgoing_count >>

\* mutant of FccAppend: a copy that could not be filed fails the response
FccAppendFailing(p, r, f) ==
    /\ pc[p] = "fcc_append"
    /\ LET filed == r = NOERR /\ f
           e == [act[p] EXCEPT !.r2 = r, !.nappend = 1, !.filed = filed]
       IN  /\ r \in DeliverResults(e.target)
           /\ appended' = IF filed
                            THEN appended \cup
                                 {[mbox |-> e.target, by |-> p,
                                   n |-> Len(log[p]) + 1, clone |-> FALSE]}
                            ELSE appended
           /\ Return(p, [e EXCEPT !.ret = IF filed THEN SIEVE_OK
                                          ELSE SIEVE_FAIL])
    /\ UNCHANGED << given, hdrcache, stage, edited, now, ledger, outbox,
                    mailboxes, annotations, rcptstatus, outgoing_count >>

\* do_fcc(), append_setup to append_commit.  r is the result of
\* append_setup and, when the stage file was opened (f), of
\* append_fromstage and append_commit after it; the copy is filed in
\* intname when r is 0 and append_newstage gave a file.  Without the file
\* the append is aborted with r still 0 and nothing is filed.  do_fcc
\* returns nothing, and send_response goes on to "ret = SIEVE_OK"
FccAppend(p, r, f) ==
    /\ pc[p] = "fcc_append"
    /\ LET filed == r = NOERR /\ f
           e == [act[p] EXCEPT !.r2 = r, !.nappend = 1, !.filed = filed]
       IN  /\ r \in DeliverResults(e.target)
           /\ appended' = IF filed
                            THEN appended \cup
                                 {[mbox |-> e.target, by |-> p,
                                   n |-> Len(log[p]) + 1, clone |-> FALSE]}
                            ELSE appended
           /\ Return(p, [e EXCEPT !.ret = SIEVE_OK])
    /\ UNCHANGED << given, hdrcache, stage, edited, now, ledger, outbox,
                    mailboxes, annotations, rcptstatus, outgoing_count >>

----------------------------------------------------------------------------
(* duplicate: the generic duplicate test of a script *)

\* sieve_duplicate_context_t {id, seconds}
DuplicateContexts == [id : {"k1", "k2"}, seconds : {0, 2}]

\* the key of both handlers: the caller's id, the sieve db of the script's
\* owner, "no date on these, ID is custom"
DuplicateKey(dtc, u) == DupKey(dtc.id, make_sieve_db(u), "")

\* mutant of sieve_duplicate_check: a record that expires now still counts
sieve_duplicate_check_at_expiry(db, dtc, u, tnow) ==
    LET t == duplicate_check(db, DuplicateKey(dtc, u))
    IN  IF t # 0 /\ tnow <= t THEN 1 ELSE 0

\* sieve_duplicate_check(): 1 for an active tracking record, 0 otherwise
sieve_duplicate_check(db, dtc, u, tnow) ==
    LET t == duplicate_check(db, DuplicateKey(dtc, u))
    IN  IF t # 0 /\ tnow < t THEN 1 ELSE 0

\* mutant of sieve_duplicate_track: the mark replaces the database
sieve_duplicate_track_alone(db, dtc, u, tnow) ==
    [k \in {DuplicateKey(dtc, u)} |-> tnow + dtc.seconds]

\* sieve_duplicate_track(): the database after the mark
sieve_duplicate_track(db, dtc, u, tnow) ==
    duplicate_mark(db, DuplicateKey(dtc, u), tnow + dtc.seconds)

\* the script engine calls sieve_duplicate_check
SieveDuplicateCheck(p, dtc) ==
    /\ CanStart(p)
    /\ LET key == DuplicateKey(dtc, user[p])
           e == [BlankEntry EXCEPT !.verb = "duplicate_check", !.ctx = dtc,
                                   !.key = key, !.at = now,
                                   !.seen = duplicate_check(ledger, key)]
       IN  Return(p, [e EXCEPT !.ret =
                         sieve_duplicate_check(ledger, dtc, user[p], now)])
    /\ UNCHANGED << given, hdrcache, stage, store, edited, ledger, outbox,
                    now, rcptstatus, outgoing_count >>

\* the script engine calls sieve_duplicate_track
SieveDuplicateTrack(p, dtc) ==
    /\ CanStart(p)
    /\ LET key == DuplicateKey(dtc, user[p])
           e == [BlankEntry EXCEPT !.verb = "duplicate_track", !.ctx = dtc,
                                   !.key = key, !.at = now, !.marked = TRUE]
       IN  /\ ledger' = sieve_duplicate_track(ledger, dtc, user[p], now)
           /\ Return(p, [e EXCEPT !.ret = SIEVE_OK])
    /\ UNCHANGED << given, hdrcache, stage, store, edited, outbox,
                    now, rcptstatus, outgoing_count >>

----------------------------------------------------------------------------
(* keep and the header edits *)

\* deliver_local(): the mailbox of the recipient, the user's INBOX
deliver_local_target(u) == "user." \o u

\* mutant of KeepAppended: a failed keep takes back what the execution had
\* appended before
KeepAppendedOrUndone(ap, rec, r) ==
    IF r = NOERR THEN ap \cup {rec} ELSE {a \in ap : a.by # rec.by}

\* sieve_keep(), the store after "ret = deliver_local(..)": the message is
\* appended when the call returns 0, and a failure only sets *errmsg
KeepAppended(ap, rec, r) == IF r = NOERR THEN ap \cup {rec} ELSE ap

\* sieve_keep()
SieveKeep(p, stage_ok, r) ==
    /\ CanStart(p)
    /\ LET intname == deliver_local_target(user[p])
           e0 == [BlankEntry EXCEPT !.verb = "keep"]
           e == [e0 EXCEPT !.staged = edited[p], !.target = intname,
                           !.r1 = r, !.nappend = 1]
       IN  IF edited[p] /\ ~stage_ok
             THEN \* setup_special_delivery returned NULL
                  /\ Return(p, [e0 EXCEPT !.ret = SIEVE_FAIL])
                  /\ UNCHANGED << appended, stage >>
             ELSE /\ r \in DeliverResults(intname)
                  /\ appended' =
                        KeepAppended(appended, Delivered(p, intname), r)
                  /\ stage' = [stage EXCEPT ![p] =
                                  StageAtCleanup(p, StageAtSetup(p))]
                  /\ Return(p, [e EXCEPT
                         !.ret = IF r = NOERR THEN SIEVE_OK ELSE SIEVE_FAIL,
                         !.err = IF r = NOERR THEN NULL ELSE r])
    /\ UNCHANGED << given, hdrcache, edited, ledger, outbox, now, mailboxes,
                    annotations, rcptstatus, outgoing_count >>

\* the header edits a script asks for
Edits ==
    [op : {"addheader"}, head : {"X-New", NULL}, body : {"v"}, index : {-1}]
      \cup [op : {"addheader"}, head : {"X-New"}, body : {NULL}, index : {-1}]
      \cup [op : {"deleteheader"}, head : {NULL}, body : {NULL}, index : {0}]
      \cup [op : {"addheader"}, head : {"X-New"}, body : {"v"}, index : {0}]
      \cup [op : {"deleteheader"}, head : {"Subject"}, body : {NULL},
            index : {0}]
      \cup [op : {"deleteheader"}, head : {"X-New"}, body : {NULL},
            index : {1}]
      \cup [op : {"addheader"}, head : {"Return-Path"}, body : {"v"},
            index : {-1}]

\* addheader() or deleteheader(), called by the script engine for an edit
EditHeader(p, ed) ==
    /\ CanStart(p)
    /\ LET res == IF ed.op = "addheader"
                    THEN addheader(hdrcache[p], ed.head, ed.body, ed.index)
                    ELSE deleteheader(hdrcache[p], ed.head, ed.index)
       IN  /\ hdrcache' = [hdrcache EXCEPT ![p] = res.hdrcache]
           /\ edited' = [edited EXCEPT ![p] = @ \/ res.edited]
           /\ Return(p, [BlankEntry EXCEPT !.verb = ed.op, !.ctx = ed,
                                           !.ret = res.ret])
    /\ UNCHANGED << given, stage, store, ledger, outbox, now, rcptstatus,
                    outgoing_count >>

----------------------------------------------------------------------------
(* run_sieve: one script execution for a recipient with a userid *)

SIEVE_RUN_ERROR == "SIEVE_RUN_ERROR"

\* results of sieve_find_script and of sieve_script_load
FindResults == {0, -1}
LoadResults == {SIEVE_OK, SIEVE_FAIL}

\* results of sieve_execute_bytecode
ExecuteResults == {SIEVE_OK, SIEVE_RUN_ERROR}

\* mutant of ScriptAvailable: only the lookup of the script is tested
ScriptAvailableIfFound(find_r, load_r) == find_r = 0

\* run_sieve(), "sieve_find_script(..) != 0 || sieve_script_load(..) !=
\* SIEVE_OK" is the negation
ScriptAvailable(find_r, load_r) == find_r = 0 /\ load_r = SIEVE_OK

\* the key run_sieve marks after the script ran: the message-id, the sieve
\* db of the recipient (a recipient without a +detail part), the date
RunSieveKey(m, u) == DupKey(m.id, make_sieve_db(u), m.date)

\* run_sieve has loaded the script of p and has not returned
Executing(p) ==
    /\ log[p] # << >>
    /\ log[p][1].verb = "sieve_script_load"
    /\ log[p][Len(log[p])].verb # "run_sieve"

\* run_sieve(), from entry to sieve_execute_bytecode
RunSieveLoad(p, find_r, load_r) ==
    /\ CanStart(p) /\ log[p] = << >>
    /\ LET ctx == [find |-> find_r, load |-> load_r]
       IN  IF ScriptAvailable(find_r, load_r)
             THEN /\ edited' = [edited EXCEPT ![p] = FALSE]
                  /\ Return(p, [BlankEntry EXCEPT
                                   !.verb = "sieve_script_load", !.ctx = ctx,
                                   !.ret = SIEVE_OK])
             ELSE \* "no sieve script": do normal delivery actions
                  /\ edited' = edited
                  /\ Return(p, [BlankEntry EXCEPT
                                   !.verb = "run_sieve", !.ctx = ctx,
                                   !.ret = 1])
    /\ UNCHANGED << given, hdrcache, stage, store, ledger, outbox, now,
                    rcptstatus, outgoing_count >>

\* mutant of RunSieveEnd: the message is marked whatever the script returned
RunSieveEndAnyResult(p, r) ==
    /\ CanStart(p) /\ Executing(p)
    /\ LET key == RunSieveKey(msg[p], user[p])
           mark == msg[p].id # NULL
           e == [BlankEntry EXCEPT !.verb = "run_sieve", !.at = now,
                                   !.ctx = log[p][1].ctx, !.ret = r]
       IN  /\ ledger' = IF mark THEN duplicate_mark(ledger, key, now)
                        ELSE ledger
           /\ Return(p, IF mark THEN [e EXCEPT !.key = key, !.marked = TRUE]
                        ELSE e)
    /\ UNCHANGED << given, hdrcache, stage, store, edited, outbox, now,
                    rcptstatus, outgoing_count >>

\* run_sieve(), from the return of sieve_execute_bytecode to its own
RunSieveEnd(p, r) ==
    /\ CanStart(p) /\ Executing(p)
    /\ LET key == RunSieveKey(msg[p], user[p])
           mark == r = SIEVE_OK /\ msg[p].id # NULL
           e == [BlankEntry EXCEPT !.verb = "run_sieve", !.at = now,
                                   !.ctx = log[p][1].ctx, !.ret = r]
       IN  /\ ledger' = IF mark THEN duplicate_mark(ledger, key, now)
                        ELSE ledger
           /\ Return(p, IF mark THEN [e EXCEPT !.key = key, !.marked = TRUE]
                        ELSE e)
    /\ UNCHANGED << given, hdrcache, stage, store, edited, outbox, now,
                    rcptstatus, outgoing_count >>

----------------------------------------------------------------------------
(* Header edits and the clock *)

\* addheader() with a name and a value, once, before the actions
AddHeader(p) ==
    /\ pc[p] = "idle"
    /\ ~edited[p]
    /\ edited' = [edited EXCEPT ![p] = TRUE]
    /\ hdrcache' = [hdrcache EXCEPT ![p] =
                       addheader(@, "X-Sieve-Added", "v", -1).hdrcache]
    /\ UNCHANGED << given, stage, store, pc, act, log, ledger, outbox, now,
                    rcptstatus, outgoing_count >>

\* time passes
Tick ==
    /\ now < MaxTime
    /\ now' = now + 1
    /\ UNCHANGED << given, hdrcache, stage, store, pc, act, log, edited,
                    ledger, outbox, rcptstatus, outgoing_count >>

----------------------------------------------------------------------------
(* Initial states *)

EmptyLedger == [k \in {} |-> 0]

DefaultConfig ==
    [ lmtp_reject |-> FALSE, anysievefolder |-> FALSE,
      autocreate_folders |-> << >>, srs |-> FALSE ]

InitCommon ==
    /\ pc = [p \in Procs |-> "idle"]
    /\ act = [p \in Procs |-> BlankEntry]
    /\ log = [p \in Procs |-> << >>]
    /\ edited = [p \in Procs |-> FALSE]
    /\ ledger = EmptyLedger
    /\ outbox = {}
    /\ now = 1
    /\ appended = {}
    /\ annotations = {}
    /\ rcptstatus = [p \in Procs |-> << >>]
    /\ outgoing_count = [p \in Procs |-> 0]
    /\ mfile = [p \in Procs |-> OrigFile]
    /\ hdrcache = [p \in Procs |-> OrigHeaders]
    /\ stage = [p \in Procs |-> [made |-> 0, live |-> 0]]

----------------------------------------------------------------------------
(* One delivery that redirects: the script engine calls the handlers of    *)
(* execution Main one after the other                                      *)

Main == "d1"

RedirectMessages ==
    [id : {NULL, "<m1>"}, date : {"d1", "d2"}, return_path : {"s@x"}]

InitRedirect ==
    /\ InitCommon
    /\ msg \in [Procs -> RedirectMessages]
    /\ msg["d2"] = [id |-> "<m1>", date |-> "d1", return_path |-> "s@x"]
    /\ user = [p \in Procs |-> "u1"]
    /\ mailboxes = {}
    /\ config = DefaultConfig

NextRedirect ==
    \/ \E rc \in RedirectContexts :
          Len(log[Main]) < MaxActions /\ RedirectCheck(Main, rc)
    \/ \E stage_ok, abook_ok \in BOOLEAN,
          open_r \in SmtpOpenResults, send_r \in SmtpSendResults :
            RedirectSend(Main, stage_ok, FALSE, abook_ok, open_r, send_r)
    \/ RedirectMark(Main)
    \/ AddHeader(Main)

SpecRedirect == InitRedirect /\ [][NextRedirect]_vars

----------------------------------------------------------------------------
(* Two deliveries that redirect at the same time, as two lmtpd processes   *)

MaxRaceActions == 1     \* handler invocations of each racing execution

InitRedirectRace ==
    /\ InitCommon
    /\ msg \in [Procs -> RedirectMessages]
    /\ msg["d1"] = [id |-> "<m1>", date |-> "d1", return_path |-> "s@x"]
    /\ msg["d2"].id = "<m1>"
    /\ user \in [Procs -> {"u1", "u2"}]
    /\ user["d1"] = "u1"
    /\ mailboxes = {}
    /\ config = DefaultConfig

\* the claims of this specification read no error text of the transport: one
\* failure code of each call is drawn
NextRedirectRace ==
    \/ \E p \in Procs, rc \in RedirectContexts :
          Len(log[p]) < MaxRaceActions /\ RedirectCheck(p, rc)
    \/ \E p \in Procs, stage_ok, abook_ok \in BOOLEAN,
          open_r \in {NOERR, SMTP_OPEN_FAILED}, send_r \in {NOERR, SMTP_SEND_FAILED} :
            RedirectSend(p, stage_ok, FALSE, abook_ok, open_r, send_r)
    \/ \E p \in Procs : RedirectMark(p)
    \/ \E p \in Procs : log[p] = << >> /\ AddHeader(p)

SpecRedirectRace == InitRedirectRace /\ [][NextRedirectRace]_vars

----------------------------------------------------------------------------
(* One delivery that files into folders *)

MaxFileintos == 1       \* fileinto actions of the execution

FileintoResults ==
    {NOERR, IMAP_MAILBOX_NONEXISTENT, IMAP_MAILBOX_EXISTS,
     IMAP_QUOTA_EXCEEDED, IMAP_PERMISSION_DENIED}

InitFileinto ==
    /\ InitCommon
    /\ msg = [p \in Procs |->
                [id |-> "<m1>", date |-> "d1", return_path |-> "s@x"]]
    /\ user \in [Procs -> {"u1", NULL}]
    /\ user["d2"] = "u1"
    /\ mailboxes = {mboxname_from_external(f, user[Main]) :
                       f \in {"Work"} \cup SpecialUses}
    /\ config \in [lmtp_reject : {FALSE}, anysievefolder : BOOLEAN,
                   autocreate_folders : {<< >>, << "Junk" >>},
                   srs : {FALSE}]

NextFileinto ==
    \/ \E fc \in FileintoContexts, stage_ok \in BOOLEAN :
            /\ Len(log[Main]) < MaxFileintos
            /\ FileintoLookup(Main, fc, stage_ok)
    \/ \E r \in FileintoResults : FileintoDeliver(Main, r)
    \/ \E r \in FileintoResults : FileintoCreate(Main, r)
    \/ \E valid \in BOOLEAN : FileintoAnnotate(Main, valid)
    \/ \E r \in FileintoResults : FileintoRetry(Main, r)
    \/ \E mb \in mailboxes : StoreDelete(mb)
    \/ AddHeader(Main)

SpecFileinto == InitFileinto /\ [][NextFileinto]_vars

----------------------------------------------------------------------------
(* One delivery that rejects *)

InitReject ==
    /\ InitCommon
    /\ msg \in [Procs -> [id : {"<m1>"}, date : {"d1"},
                          return_path : {NULL, "", "s@x"}]]
    /\ msg["d2"].return_path = "s@x"
    /\ user = [p \in Procs |-> "u1"]
    /\ mailboxes = {}
    /\ config \in [lmtp_reject : BOOLEAN, anysievefolder : {FALSE},
                   autocreate_folders : {<< >>}, srs : {FALSE}]

NextReject ==
    \/ \E rc \in RejectContexts, nulltext \in {NullText, << >>} :
            \* the script engine runs one reject for a message
            /\ log[Main] = << >>
            /\ SieveReject(Main, rc, nulltext)
    \/ \E open_r \in SmtpOpenResults, send_r \in SmtpSendResults :
            /\ open_r # NOERR => send_r = NOERR
            /\ RejectSend(Main, open_r, send_r)
    \/ Tick

SpecReject == InitReject /\ [][NextReject]_vars

----------------------------------------------------------------------------
(* Deliveries to one user whose script answers with a vacation response *)

MaxVacations == 3       \* vacation actions of the execution

InitVacation ==
    /\ InitCommon
    /\ msg = [p \in Procs |->
                [id |-> "<m1>", date |-> "d1", return_path |-> "s@x"]]
    /\ user = [p \in Procs |-> "u1"]
    /\ mailboxes = {mboxname_from_external("Work", "u1")}
    /\ config = DefaultConfig

\* the claims of this specification read no error text of the transport: one
\* failure code of each call is drawn
NextVacation ==
    \/ \E arc \in AutorespondContexts :
          /\ Cardinality(Autoresponds(Main)) < MaxVacations
          /\ ~ResponseDue(Main)
          \* the script, and with it the window, is the same in every delivery
          /\ \A i \in Autoresponds(Main) :
                log[Main][i].ctx.seconds = arc.seconds
          /\ AutorespondCheck(Main, arc)
    \/ AutorespondMark(Main)
    \/ \E src \in ResponseContexts, open_r \in {NOERR, SMTP_OPEN_FAILED},
          send_r \in {NOERR, SMTP_SEND_FAILED} :
            /\ ResponseDue(Main)
            /\ open_r # NOERR => send_r = NOERR
            /\ src.fcc.mailbox # "Sent" /\ ~src.fcc.do_create
            /\ src.fcc.specialuse = NULL
            \* a refused message and a copy to file: in the first response
            /\ send_r # NOERR => Responses(Main) = {}
            /\ src.fcc.mailbox # NULL => Responses(Main) = {}
            /\ SendResponse(Main, src, open_r, send_r)
    \/ ResponseMark(Main)
    \/ FccLookup(Main)
    \/ FccFind(Main)
    \/ \E r \in FileintoResults, f \in BOOLEAN : FccAppend(Main, r, f)
    \* time passes between the deliveries
    \/ pc[Main] = "idle" /\ ~ResponseDue(Main) /\ Tick

SpecVacation == InitVacation /\ [][NextVacation]_vars

----------------------------------------------------------------------------
(* Two deliveries to one user whose script answers with the same vacation, *)
(* within one second                                                       *)

NextVacationRace ==
    \/ \E p \in Procs, arc \in AutorespondContexts :
          /\ log[p] = << >>
          /\ arc.hash = << 10, 171 >>
          /\ AutorespondCheck(p, arc)
    \/ \E p \in Procs : AutorespondMark(p)
    \/ \E p \in Procs, src \in ResponseContexts,
          open_r \in SmtpOpenResults, send_r \in SmtpSendResults :
            /\ ResponseDue(p)
            /\ open_r # NOERR => send_r = NOERR
            /\ src.fcc.mailbox = NULL /\ ~src.fcc.do_create
            /\ src.fcc.specialuse = NULL
            /\ SendResponse(p, src, open_r, send_r)
    \/ \E p \in Procs : ResponseMark(p)

SpecVacationRace == InitVacation /\ [][NextVacationRace]_vars

----------------------------------------------------------------------------
(* Two deliveries to one user that file into folders at the same time, as  *)
(* two lmtpd processes; each runs one fileinto                             *)

InitFileintoRace ==
    /\ InitCommon
    /\ msg = [p \in Procs |->
                [id |-> "<m1>", date |-> "d1", return_path |-> "s@x"]]
    /\ user = [p \in Procs |-> "u1"]
    /\ mailboxes = {mboxname_from_external("Work", "u1")}
    /\ config \in [lmtp_reject : {FALSE}, anysievefolder : BOOLEAN,
                   autocreate_folders : {<< >>}, srs : {FALSE}]

NextFileintoRace ==
    \/ \E p \in Procs, fc \in FileintoContexts :
          /\ log[p] = << >>
          /\ fc.specialuse = NULL
          /\ FileintoLookup(p, fc, TRUE)
    \/ \E p \in Procs, r \in FileintoResults : FileintoDeliver(p, r)
    \/ \E p \in Procs, r \in FileintoResults : FileintoCreate(p, r)
    \/ \E p \in Procs, r \in FileintoResults : FileintoRetry(p, r)

SpecFileintoRace == InitFileintoRace /\ [][NextFileintoRace]_vars

----------------------------------------------------------------------------
(* One delivery whose script edits the header and keeps, files and         *)
(* redirects the message                                                   *)

MaxScript == 3          \* handler invocations of the script

InitEdit ==
    /\ InitCommon
    /\ msg = [p \in Procs |->
                [id |-> "<m1>", date |-> "d1", return_path |-> "s@x"]]
    /\ user = [p \in Procs |-> "u1"]
    /\ mailboxes = {deliver_local_target("u1"),
                    mboxname_from_external("Work", "u1")}
    /\ config = DefaultConfig

NextEdit ==
    \/ \E ed \in Edits :
          Len(log[Main]) < MaxScript /\ EditHeader(Main, ed)
    \/ \E stage_ok \in BOOLEAN, r \in FileintoResults :
          /\ Len(log[Main]) < MaxScript
          /\ ~edited[Main] => stage_ok
          /\ SieveKeep(Main, stage_ok, r)
    \/ \E fc \in FileintoContexts, stage_ok \in BOOLEAN :
            /\ Len(log[Main]) < MaxScript
            /\ fc.specialuse = NULL
            /\ fc.do_create = (fc.mailbox = "Junk")
            /\ ~edited[Main] => stage_ok
            /\ FileintoLookup(Main, fc, stage_ok)
    \/ \E r \in FileintoResults : FileintoDeliver(Main, r)
    \/ \E r \in FileintoResults : FileintoCreate(Main, r)
    \/ \E r \in FileintoResults : FileintoRetry(Main, r)
    \/ \E rc \in RedirectContexts :
          /\ Len(log[Main]) < MaxScript
          /\ ~rc.is_ext_list /\ rc.addr = "a@x"
          /\ RedirectCheck(Main, rc)
    \/ \E stage_ok \in BOOLEAN, open_r \in SmtpOpenResults,
          send_r \in SmtpSendResults :
            /\ ~edited[Main] => stage_ok
            /\ open_r # NOERR => send_r = NOERR
            /\ RedirectSend(Main, stage_ok, FALSE, TRUE, open_r, send_r)
    \/ RedirectMark(Main)

SpecEdit == InitEdit /\ [][NextEdit]_vars

----------------------------------------------------------------------------
(* One delivery whose script tests and tracks duplicates *)

InitDuplicate ==
    /\ InitCommon
    /\ msg = [p \in Procs |->
                [id |-> "<m1>", date |-> "d1", return_path |-> "s@x"]]
    /\ user = [p \in Procs |-> "u1"]
    /\ mailboxes = {}
    /\ config = DefaultConfig

NextDuplicate ==
    \/ \E dtc \in DuplicateContexts :
          Len(log[Main]) < MaxActions /\ SieveDuplicateCheck(Main, dtc)
    \/ \E dtc \in DuplicateContexts :
          Len(log[Main]) < MaxActions /\ SieveDuplicateTrack(Main, dtc)
    \/ Tick

SpecDuplicate == InitDuplicate /\ [][NextDuplicate]_vars

----------------------------------------------------------------------------
(* include: where the script engine finds an included script *)

\* dir_hash_c(name, config_fulldirhash) without full hashing: the first
\* character of the name, for the names of the model
dir_hash_c(name) ==
    CASE name = "u1" -> "u" [] name = "x.org" -> "x" [] OTHER -> "q"

\* sieve_find_script(): [r, fname, fault].  setup_sieve sets sieve_dir to
\* the configured "/sieve" when sieve_usehomedir is off and to NULL when it
\* is on; FNAME_DOMAINDIR is "/domain/"; home is [use |-> sieve_usehomedir,
\* pw_dir |-> the home directory getpwnam finds, NULL when it finds none].
\* fname is NULL where the function returns without writing it.  With
\* sieve_usehomedir on and no user, strlcpy(fname, sieve_dir, size) reads
\* the NULL sieve_dir: the process faults.
sieve_find_script(u, domain, script, home) ==
    IF u = NULL /\ script = NULL
      THEN [r |-> -1, fname |-> NULL, fault |-> FALSE]
    ELSE IF u # NULL /\ Len(u) > 900
      THEN [r |-> -1, fname |-> NULL, fault |-> FALSE]
    ELSE IF home.use /\ u # NULL
      THEN IF home.pw_dir = NULL
             THEN [r |-> -1, fname |-> NULL, fault |-> FALSE]
             ELSE [r |-> 0,
                   fname |-> home.pw_dir \o "/"
                             \o (IF script # NULL THEN script ELSE ".sieve"),
                   fault |-> FALSE]
    ELSE IF home.use
      THEN [r |-> -1, fname |-> NULL, fault |-> TRUE]
    ELSE LET dir == "/sieve"
                    \o (IF domain # NULL
                          THEN "/domain/" \o dir_hash_c(domain) \o "/"
                               \o domain
                          ELSE "")
         IN  IF u = NULL
               THEN [r |-> 0, fname |-> dir \o "/global/" \o script \o ".bc",
                     fault |-> FALSE]
             ELSE IF script = NULL
               THEN [r |-> 0,
                     fname |-> dir \o "/" \o dir_hash_c(u) \o "/" \o u
                               \o "/defaultbc",
                     fault |-> FALSE]
             ELSE [r |-> 0,
                   fname |-> dir \o "/" \o dir_hash_c(u) \o "/" \o u \o "/"
                             \o script \o ".bc",
                   fault |-> FALSE]

\* the script names an include asks for; the second holds "../"
IncludeScripts == {"inc", "../inc"}

\* strstr(script, "../")
HasDotDot(script) == script = "../inc"

\* getinclude(): files are the paths for which stat() succeeds
getinclude(localpart, domain, script, isglobal, home, files) ==
    IF HasDotDot(script)
      THEN [r |-> SIEVE_FAIL, fname |-> NULL, fault |-> FALSE]
    ELSE LET f == sieve_find_script(IF isglobal THEN NULL ELSE localpart,
                                    domain, script, home)
         IN  IF ~f.fault /\ f.r = 0 /\ isglobal /\ domain # NULL
                /\ f.fname \notin files
               THEN \* if the domain-specific global script doesn't exist,
                    \* try a server-wide global script
                    sieve_find_script(NULL, NULL, script, home)
               ELSE f

\* the script engine calls getinclude for the script of p, whose mailbox
\* name has the domain given
GetInclude(p, domain, script, isglobal, home, files) ==
    /\ CanStart(p)
    /\ LET f == getinclude(user[p], domain, script, isglobal, home, files)
           e == [BlankEntry EXCEPT
                    !.verb = "getinclude",
                    !.ctx = [domain |-> domain, script |-> script,
                             isglobal |-> isglobal, home |-> home,
                             files |-> files]]
       IN  IF f.fault
             THEN \* the process is gone, the handler does not return
                  /\ pc' = [pc EXCEPT ![p] = "crashed"]
                  /\ act' = [act EXCEPT ![p] = e]
                  /\ log' = log
             ELSE Return(p, [e EXCEPT !.target = f.fname, !.ret = f.r])
    /\ UNCHANGED << given, hdrcache, stage, store, edited, ledger, outbox,
                    now, rcptstatus, outgoing_count >>

----------------------------------------------------------------------------
(* discard and notify *)

\* mutant of sieve_discard: the discard forgets the header edits
SieveDiscardUnedited(p) ==
    /\ CanStart(p)
    /\ Return(p, [BlankEntry EXCEPT !.verb = "discard", !.ret = SIEVE_OK])
    /\ edited' = [edited EXCEPT ![p] = FALSE]
    /\ UNCHANGED << given, hdrcache, stage, store, ledger, outbox,
                    now, rcptstatus, outgoing_count >>

\* sieve_discard(): the message is not filed; counters and the log only
SieveDiscard(p) ==
    /\ CanStart(p)
    /\ Return(p, [BlankEntry EXCEPT !.verb = "discard", !.ret = SIEVE_OK])
    /\ UNCHANGED << given, hdrcache, stage, store, edited, ledger, outbox,
                    now, rcptstatus, outgoing_count >>

\* sieve_notify_context_t: the method the script names
NotifyContexts == [method : {"default", "Default", "mailto"}]

\* mutant of notify_method: the configured notifier, whatever the method
notify_method_configured(nc, notifier) == notifier

\* sieve_notify(), the first argument of notify(): "default" is a magic
\* value that implies the default
notify_method(nc, notifier) ==
    IF nc.method = "default" THEN notifier ELSE nc.method

\* sieve_notify(): the notification goes to notifyd when a notifier is
\* configured (notifier is what config_getstring(IMAPOPT_SIEVENOTIFIER)
\* returns, NULL when there is none); nothing of the delivery changes.
\* target is the method notify() was called with.
SieveNotify(p, nc, notifier) ==
    /\ CanStart(p)
    /\ Return(p, [BlankEntry EXCEPT
                     !.verb = "notify", !.ctx = nc,
                     !.called = (notifier # NULL),
                     !.target = IF notifier # NULL
                                  THEN notify_method(nc, notifier)
                                  ELSE NULL,
                     !.ret = SIEVE_OK])
    /\ UNCHANGED << given, hdrcache, stage, store, edited, ledger, outbox,
                    now, rcptstatus, outgoing_count >>

----------------------------------------------------------------------------
(* run_sieve for one delivery: the script is looked up and loaded, its     *)
(* actions run, run_sieve returns                                          *)

InitRunSieve ==
    /\ InitCommon
    /\ msg \in [Procs -> RedirectMessages]
    /\ msg["d2"] = [id |-> "<m1>", date |-> "d1", return_path |-> "s@x"]
    /\ user = [p \in Procs |-> "u1"]
    /\ mailboxes = {deliver_local_target("u1")}
    /\ config = DefaultConfig

\* the script engine may call one more handler of the running script
MayCall(p) == Executing(p) /\ Len(log[p]) < 1 + MaxActions

\* the claims of this specification read no error text of the transport: one
\* failure code of each call is drawn
NextRunSieve ==
    \/ \E find_r \in FindResults, load_r \in LoadResults :
          RunSieveLoad(Main, find_r, load_r)
    \/ \E r \in FileintoResults :
          MayCall(Main) /\ SieveKeep(Main, TRUE, r)
    \/ \E rc \in RedirectContexts :
          /\ MayCall(Main)
          /\ ~rc.is_ext_list /\ rc.addr = "a@x"
          /\ RedirectCheck(Main, rc)
    \/ \E open_r \in {NOERR, SMTP_OPEN_FAILED}, send_r \in {NOERR, SMTP_SEND_FAILED} :
          /\ open_r # NOERR => send_r = NOERR
          /\ RedirectSend(Main, TRUE, FALSE, TRUE, open_r, send_r)
    \/ RedirectMark(Main)
    \/ \E dtc \in DuplicateContexts :
          MayCall(Main) /\ SieveDuplicateTrack(Main, dtc)
    \/ \E ed \in Edits : MayCall(Main) /\ EditHeader(Main, ed)
    \/ MayCall(Main) /\ SieveDiscard(Main)
    \/ \E domain \in {NULL, "x.org"}, script \in IncludeScripts,
          isglobal \in BOOLEAN, use \in BOOLEAN,
          files \in SUBSET {"/sieve/domain/x/x.org/global/inc.bc"} :
            /\ MayCall(Main)
            \* the inputs a lookup does not read are fixed
            /\ (isglobal /\ use) => files = {}
            /\ files # {} => (isglobal /\ domain # NULL)
            /\ HasDotDot(script) => (~isglobal /\ domain = NULL /\ ~use)
            /\ GetInclude(Main, domain, script, isglobal,
                          [use |-> use, pw_dir |-> "/home/u1"], files)
    \/ \E nc \in NotifyContexts, notifier \in {NULL, "log"} :
          MayCall(Main) /\ SieveNotify(Main, nc, notifier)
    \/ \E r \in ExecuteResults : RunSieveEnd(Main, r)

SpecRunSieve == InitRunSieve /\ [][NextRunSieve]_vars

----------------------------------------------------------------------------
(* One delivery whose script uses the ledger in its three ways: redirect,  *)
(* vacation and the duplicate test, next to the actions that leave it      *)
(* alone.  The Date of the message is the text of its Date header, which   *)
(* may be empty; the id of a duplicate test is the text the script gives.  *)

LedgerMessages ==
    [id : {"<m1>"}, date : {"", "d1"}, return_path : {"s@x"}]

LedgerHash == << 10, 171 >>

\* ids of duplicate tests: a plain one, one that reads like the id of a
\* redirect key, one that reads like the id of a vacation key
LedgerContexts ==
    [id : {"k1", "<m1>-a@x", HexId(LedgerHash)}, seconds : {2}]

InitLedger ==
    /\ InitCommon
    /\ msg \in [Procs -> LedgerMessages]
    /\ msg["d2"] = [id |-> "<m1>", date |-> "d1", return_path |-> "s@x"]
    /\ user = [p \in Procs |-> "u1"]
    /\ mailboxes = {}
    /\ config = DefaultConfig

\* the claims of this specification read no error text of the transport: one
\* failure code of each call is drawn
NextLedger ==
    \/ \E rc \in RedirectContexts :
          /\ Len(log[Main]) < MaxScript
          /\ ~rc.is_ext_list /\ rc.addr = "a@x"
          /\ RedirectCheck(Main, rc)
    \/ \E open_r \in {NOERR, SMTP_OPEN_FAILED}, send_r \in {NOERR, SMTP_SEND_FAILED} :
          /\ open_r # NOERR => send_r = NOERR
          /\ RedirectSend(Main, TRUE, FALSE, TRUE, open_r, send_r)
    \/ RedirectMark(Main)
    \/ \E dtc \in LedgerContexts :
          Len(log[Main]) < MaxScript /\ SieveDuplicateTrack(Main, dtc)
    \/ \E dtc \in LedgerContexts :
          Len(log[Main]) < MaxScript /\ SieveDuplicateCheck(Main, dtc)
    \/ /\ Len(log[Main]) < MaxScript
       /\ AutorespondCheck(Main, [hash |-> LedgerHash, seconds |-> 2])
    \/ AutorespondMark(Main)
    \/ \E src \in ResponseContexts, send_r \in {NOERR, SMTP_SEND_FAILED} :
          /\ Len(log[Main]) < MaxScript /\ ResponseDue(Main)
          /\ src.fcc.mailbox = NULL /\ ~src.fcc.do_create
          /\ src.fcc.specialuse = NULL
          /\ SendResponse(Main, src, NOERR, send_r)
    \/ ResponseMark(Main)
    \/ \E rc \in RejectContexts :
          /\ Len(log[Main]) < MaxScript
          /\ rc.msg = << 97 >> /\ ~rc.is_extended
          /\ SieveReject(Main, rc, NullText)
    \/ \E send_r \in {NOERR, SMTP_SEND_FAILED} : RejectSend(Main, NOERR, send_r)
    \/ \E r \in FileintoResults :
          Len(log[Main]) < MaxScript /\ SieveKeep(Main, TRUE, r)
    \/ \E fc \in FileintoContexts :
          /\ Len(log[Main]) < MaxScript
          /\ fc.mailbox = "Work" /\ fc.specialuse = NULL
          /\ FileintoLookup(Main, fc, TRUE)
    \/ \E r \in FileintoResults : FileintoDeliver(Main, r)
    \/ \E r \in FileintoResults : FileintoCreate(Main, r)
    \/ \E r \in FileintoResults : FileintoRetry(Main, r)
    \/ Len(log[Main]) < MaxScript /\ SieveDiscard(Main)
    \/ \E nc \in NotifyContexts, notifier \in {NULL, "log"} :
          /\ Len(log[Main]) < MaxScript /\ nc.method = "default"
          /\ SieveNotify(Main, nc, notifier)

SpecLedger == InitLedger /\ [][NextLedger]_vars

----------------------------------------------------------------------------
(* One delivery that redirects, with and without a return path and with    *)
(* and without address rewriting (SRS)                                     *)

ForwardMessages ==
    [id : {"<m1>"}, date : {"d1"}, return_path : {NULL, "", "s@x"}]

InitForward ==
    /\ InitCommon
    /\ msg \in [Procs -> ForwardMessages]
    /\ msg["d2"] = [id |-> "<m1>", date |-> "d1", return_path |-> "s@x"]
    /\ user = [p \in Procs |-> "u1"]
    /\ mailboxes = {}
    /\ config \in [lmtp_reject : {FALSE}, anysievefolder : {FALSE},
                   autocreate_folders : {<< >>}, srs : BOOLEAN]

NextForward ==
    \/ \E rc \in RedirectContexts :
          Len(log[Main]) < MaxActions /\ RedirectCheck(Main, rc)
    \/ \E srs_ok, abook_ok \in BOOLEAN,
          open_r \in SmtpOpenResults, send_r \in SmtpSendResults :
            \* the rewriting library has nothing to rewrite without an address
            /\ msg[Main].return_path \in {NULL, ""} => ~srs_ok
            /\ open_r # NOERR => send_r = NOERR
            /\ RedirectSend(Main, TRUE, srs_ok, abook_ok, open_r, send_r)
    \/ RedirectMark(Main)

SpecForward == InitForward /\ [][NextForward]_vars

----------------------------------------------------------------------------
(* One delivery answered with a vacation response of which a copy is filed *)

InitFcc ==
    /\ InitCommon
    /\ msg = [p \in Procs |->
                [id |-> "<m1>", date |-> "d1", return_path |-> "s@x"]]
    /\ user = [p \in Procs |-> "u1"]
    /\ mailboxes \in {{mboxname_from_external("Work", "u1")},
                      {mboxname_from_external("Work", "u1"),
                       mboxname_from_external("\\Junk", "u1")}}
    /\ config \in [lmtp_reject : {FALSE}, anysievefolder : BOOLEAN,
                   autocreate_folders : {<< >>, << "Sent" >>},
                   srs : {FALSE}]

NextFcc ==
    \/ \E arc \in AutorespondContexts :
          log[Main] = << >> /\ AutorespondCheck(Main, arc)
    \/ AutorespondMark(Main)
    \/ \E src \in ResponseContexts, open_r \in SmtpOpenResults,
          send_r \in SmtpSendResults :
            /\ ResponseDue(Main)
            /\ open_r # NOERR => send_r = NOERR
            \* a special-use folder is named along with a mailbox
            /\ src.fcc.mailbox = NULL => src.fcc.specialuse = NULL
            /\ SendResponse(Main, src, open_r, send_r)
    \/ ResponseMark(Main)
    \/ FccLookup(Main)
    \/ FccFind(Main)
    \/ \E r \in FileintoResults : FccCreate(Main, r)
    \/ \E valid \in BOOLEAN : FccAnnotate(Main, valid)
    \/ \E r \in FileintoResults, f \in BOOLEAN : FccAppend(Main, r, f)
    \* another client deletes a folder, at any point of the delivery
    \/ \E mb \in mailboxes : StoreDelete(mb)

SpecFcc == InitFcc /\ [][NextFcc]_vars

----------------------------------------------------------------------------
(* Properties of redirect *)

Redirects(p) == {i \in DOMAIN log[p] : log[p][i].verb = "redirect"}

\* the messages execution p handed to the transport for duplicate key k
SentFor(p, k) == {o \in outbox : o.by = p /\ o.kind = "forward" /\ o.dkey = k}

\* C1: in one execution, once a redirect of a message that has a message id
\* has sent successfully, every later redirect of that message to the same
\* address finds the ledger entry, returns SIEVE_OK without opening the
\* transport, and exactly one message was sent for that (message id, address).
C1_RedirectOnce ==
    \A i, j \in Redirects(Main) :
        LET a == log[Main][i]
            b == log[Main][j]
        IN  (i < j /\ a.key # << >> /\ a.key = b.key /\ a.called
               /\ a.sendr = NOERR)
            => /\ b.seen # 0
               /\ b.ret = SIEVE_OK
               /\ ~b.opened /\ ~b.called
               /\ Cardinality(SentFor(Main, a.key)) = 1

\* two redirects of the same key, the first sent, the second skipped
C1_Witness ==
    \E i, j \in Redirects(Main) :
        /\ i < j
        /\ log[Main][i].key # << >>
        /\ log[Main][i].key = log[Main][j].key
        /\ log[Main][i].called /\ log[Main][i].sendr = NOERR
        /\ log[Main][j].ret = SIEVE_OK

\* C3: a redirect whose send_forward failed returns SIEVE_FAIL with the
\* ledger as it was: it did not mark, and every key of the ledger has a
\* message that was sent for it; a redirect that marked had sent.
C3_MarkOnlyAfterSend ==
    /\ \A i \in Redirects(Main) :
          LET e == log[Main][i]
          IN  /\ (e.sendr # NOERR => e.ret = SIEVE_FAIL /\ ~e.marked)
              /\ (e.marked => e.called /\ e.sendr = NOERR)
    /\ \A k \in DOMAIN ledger : SentFor(Main, k) # {}
    /\ (pc[Main] = "redirect_mark" /\ act[Main].key # << >>
          => SentFor(Main, act[Main].key) # {})

\* a redirect failed to send, and a later redirect of the same message to
\* the same address was sent
C3_Witness ==
    \E i, j \in Redirects(Main) :
        /\ i < j
        /\ log[Main][i].key # << >>
        /\ log[Main][i].key = log[Main][j].key
        /\ log[Main][i].sendr # NOERR /\ log[Main][i].ret = SIEVE_FAIL
        /\ log[Main][j].seen = 0 /\ log[Main][j].called
        /\ log[Main][j].sendr = NOERR

\* C2: between the duplicate_check of an execution and its duplicate_mark
\* the ledger does not hold the key unless a message was already sent for it,
\* so a second execution that checks in between goes on to send as well:
\* two executions that both found no entry and both sent have put two
\* messages for one key into the transport.
C2_CheckThenMarkRace ==
    /\ \A p \in Procs :
          (pc[p] = "redirect_send" /\ act[p].key # << >>
             /\ \A q \in Procs : SentFor(q, act[p].key) = {})
          => act[p].key \notin DOMAIN ledger
    /\ \A i \in Redirects("d1"), j \in Redirects("d2") :
          LET a == log["d1"][i]
              b == log["d2"][j]
          IN  (a.key # << >> /\ a.key = b.key /\ a.seen = 0 /\ b.seen = 0
                 /\ a.called /\ b.called /\ a.sendr = NOERR /\ b.sendr = NOERR)
              => Cardinality(SentFor("d1", a.key) \cup SentFor("d2", a.key)) = 2

\* both executions checked before either marked, and both sent
C2_Witness ==
    \E i \in Redirects("d1"), j \in Redirects("d2") :
        /\ log["d1"][i].key # << >>
        /\ log["d1"][i].key = log["d2"][j].key
        /\ log["d1"][i].seen = 0 /\ log["d2"][j].seen = 0
        /\ log["d1"][i].marked /\ log["d2"][j].marked
        /\ Cardinality(SentFor("d1", log["d1"][i].key)
                       \cup SentFor("d2", log["d1"][i].key)) = 2

----------------------------------------------------------------------------
(* Properties of fileinto *)

Fileintos(p) == {i \in DOMAIN log[p] : log[p][i].verb = "fileinto"}

\* the autocreation policy: the any-folder override, or the target is a
\* name of the auto-create list taken as a folder of this user, or the
\* create flag of the rule
PolicyPermits(p, e) ==
    \/ config.anysievefolder
    \/ /\ user[p] # NULL
       /\ \E n \in DOMAIN config.autocreate_folders :
             e.target = "user." \o user[p] \o "." \o config.autocreate_folders[n]
    \/ e.ctx.do_create

\* the message of invocation i of p is in mailbox mb
AppendedBy(p, i, mb) ==
    \E a \in appended : a.by = p /\ a.n = i /\ a.mbox = mb

\* C9 as stated: a fileinto whose folder does not exist creates it and
\* returns Ok with the message appended whenever the policy permits, and
\* otherwise creates nothing and fails with mailbox-nonexistent.
C9_AsStated ==
    \A i \in Fileintos(Main) :
        LET e == log[Main][i]
        IN  e.r1 = IMAP_MAILBOX_NONEXISTENT
            => IF PolicyPermits(Main, e)
                 THEN /\ e.rc = NOERR
                      /\ e.ret = SIEVE_OK
                      /\ AppendedBy(Main, i, e.target)
                 ELSE /\ e.ncreate = 0
                      /\ e.ret = SIEVE_FAIL
                      /\ e.err = IMAP_MAILBOX_NONEXISTENT

\* C9, amended: when the script owner has a userid and the policy permits,
\* the store is asked once to create the folder, and the action returns Ok
\* with the message appended exactly when that creation and the retried
\* append succeed (Fail otherwise); without a userid, or when the policy
\* does not permit, nothing is created, nothing is appended and the action
\* fails with mailbox-nonexistent.
C9_AutocreateByPolicy ==
    \A i \in Fileintos(Main) :
        LET e == log[Main][i]
        IN  e.r1 = IMAP_MAILBOX_NONEXISTENT
            => IF user[Main] # NULL /\ PolicyPermits(Main, e)
                 THEN /\ e.ncreate = 1
                      /\ (e.rc = NOERR /\ e.r2 = NOERR)
                           => (e.ret = SIEVE_OK /\ AppendedBy(Main, i, e.target))
                      /\ (e.rc # NOERR \/ e.r2 # NOERR)
                           => (e.ret = SIEVE_FAIL /\ ~AppendedBy(Main, i, e.target))
                 ELSE /\ e.ncreate = 0
                      /\ e.nappend = 1
                      /\ ~AppendedBy(Main, i, e.target)
                      /\ e.ret = SIEVE_FAIL
                      /\ e.err = IMAP_MAILBOX_NONEXISTENT

\* a folder that did not exist and is permitted by the auto-create list
\* alone was created and the message filed into it
C9_Witness ==
    \E i \in Fileintos(Main) :
        LET e == log[Main][i]
        IN  /\ e.r1 = IMAP_MAILBOX_NONEXISTENT
            /\ ~config.anysievefolder /\ ~e.ctx.do_create
            /\ e.rc = NOERR /\ e.ret = SIEVE_OK
            /\ AppendedBy(Main, i, e.target)

\* C10: one fileinto asks the store to create at most once and to append at
\* most twice; a creation and a second append happen only after a first
\* append answered mailbox-nonexistent (the second only after a successful
\* creation); every other first error, a failed creation and every error
\* of the second append end the action with Fail.
C10_OneAutocreateOneRetry ==
    \A i \in Fileintos(Main) :
        LET e == log[Main][i]
        IN  /\ e.ncreate <= 1 /\ e.nappend <= 2
            /\ e.ncreate = 1 => e.r1 = IMAP_MAILBOX_NONEXISTENT
            /\ e.nappend = 2 => (e.r1 = IMAP_MAILBOX_NONEXISTENT
                                   /\ e.ncreate = 1 /\ e.rc = NOERR)
            /\ (e.nappend >= 1 /\ e.r1 \notin {NOERR, IMAP_MAILBOX_NONEXISTENT})
                  => (e.ret = SIEVE_FAIL /\ e.nappend = 1 /\ e.ncreate = 0)
            /\ (e.rc \notin {NULL, NOERR})
                  => (e.ret = SIEVE_FAIL /\ e.nappend = 1)
            /\ (e.r2 \notin {NULL, NOERR})
                  => (e.ret = SIEVE_FAIL /\ e.nappend = 2)
            /\ Cardinality({a \in appended : a.by = Main /\ a.n = i}) <= 1

\* the folder was created, deleted again by another client, and the second
\* append answered mailbox-nonexistent: the action failed after two appends
C10_Witness ==
    \E i \in Fileintos(Main) :
        LET e == log[Main][i]
        IN  /\ e.ncreate = 1 /\ e.nappend = 2
            /\ e.r2 = IMAP_MAILBOX_NONEXISTENT
            /\ e.ret = SIEVE_FAIL

----------------------------------------------------------------------------
(* Properties of reject *)

Rejects(p) == {i \in DOMAIN log[p] : log[p][i].verb = "reject"}

InlineRejects(p) == {i \in Rejects(p) : log[p][i].path = "inline"}

\* the reason as the inline path writes it: 8-bit text MIME-encoded
WrittenReason(rc) ==
    IF \E k \in DOMAIN rc.msg : rc.msg[k] >= 128
      THEN charset_qpencode_mimebody(rc.msg) ELSE rc.msg

\* C6: a reject takes the inline path exactly when it is the extended form
\* or inline rejection is configured and every byte of the reason is ASCII;
\* the recipient's status is rejected only after a reject on the inline
\* path, so a reject on the bounce path has not set it.
C6_InlineIffExtendedOrAscii ==
    /\ \A i \in Rejects(Main) :
          LET e == log[Main][i]
          IN  /\ e.path \in {"inline", "bounce"}
              /\ e.path = "inline"
                   <=> \/ e.ctx.is_extended
                       \/ /\ config.lmtp_reject
                          /\ \A k \in DOMAIN e.ctx.msg : e.ctx.msg[k] < 128
    /\ rcptstatus[Main] # << >> => InlineRejects(Main) # {}

\* a reject that is not extended, with inline rejection configured and a
\* reason that is not ASCII, took the bounce path and set no status
C6_Witness ==
    \E i \in Rejects(Main) :
        LET e == log[Main][i]
        IN  /\ ~e.ctx.is_extended /\ config.lmtp_reject
            /\ \E k \in DOMAIN e.ctx.msg : e.ctx.msg[k] >= 128
            /\ e.path = "bounce"
            /\ rcptstatus[Main] = << >>

RECURSIVE SplitCRLF(_, _)
\* the lines of a text: what stands between its CRLF line breaks (a line
\* break at the end of the text ends the last line)
SplitCRLF(t, cur) ==
    IF t = << >> THEN (IF cur = << >> THEN << >> ELSE << cur >>)
    ELSE IF Len(t) >= 2 /\ t[1] = CR /\ t[2] = LF
      THEN << cur >> \o SplitCRLF(Tail(Tail(t)), << >>)
      ELSE SplitCRLF(Tail(t), Append(cur, Head(t)))

\* the response of the last inline reject of p is what the status slot holds
LastInlineReject(p) ==
    CHOOSE i \in InlineRejects(p) : \A j \in InlineRejects(p) : j <= i

\* C7: on the inline path, for a reason of n >= 1 lines the response has
\* exactly n entries in the order of the lines, "550-5.7.1 <line>" for all
\* but the last and "550 5.7.1 <line>" for the last; the status is rejected
\* and the result Ok.  (The code takes the tokens between CR and LF bytes:
\* an empty line gives no entry, and a reason of line breaks only gives no
\* token at all and the last entry is formatted from a null pointer.)
C7_AsStated ==
    InlineRejects(Main) # {} =>
        LET e == log[Main][LastInlineReject(Main)]
            lines == SplitCRLF(WrittenReason(e.ctx), << >>)
            n == Len(lines)
            resp == rcptstatus[Main].resp
        IN  n >= 1 =>
              /\ Len(resp) = n
              /\ \A i \in 1..n :
                    i <= Len(resp) =>
                      resp[i] = (IF i < n THEN Cont550 ELSE Last550)
                                  \o lines[i] \o << CR, LF >>
              /\ rcptstatus[Main].status = "LMTP_MESSAGE_REJECTED"
              /\ e.ret = SIEVE_OK

\* the bounces handed to the transport
Bounces == {o \in outbox : o.kind = "bounce"}

\* C8: on the bounce path a message with the empty return path gives Ok and
\* one without a return path gives Fail, both without composing a bounce or
\* opening the transport; bounces go only to a return path that is a
\* non-empty string.
C8_BounceNeedsReturnPath ==
    /\ \A i \in Rejects(Main) :
          LET e == log[Main][i]
          IN  e.path = "bounce" =>
                /\ msg[Main].return_path = ""
                     => (e.ret = SIEVE_OK /\ ~e.composed /\ ~e.opened)
                /\ msg[Main].return_path = NULL
                     => (e.ret = SIEVE_FAIL /\ ~e.composed /\ ~e.opened)
                /\ msg[Main].return_path \notin {"", NULL}
                     => (e.composed /\ e.opened)
    /\ \A o \in Bounces :
          /\ msg[o.by].return_path \notin {"", NULL}
          /\ o.rcpts = {msg[o.by].return_path}
    /\ msg[Main].return_path \in {"", NULL}
          => (outgoing_count[Main] = 0 /\ DOMAIN ledger = {})

\* a reject by mail of a message with the empty return path returned Ok and
\* nothing was sent
C8_Witness ==
    \E i \in Rejects(Main) :
        /\ log[Main][i].path = "bounce"
        /\ msg[Main].return_path = ""
        /\ log[Main][i].ret = SIEVE_OK
        /\ outbox = {}

----------------------------------------------------------------------------
(* Properties of vacation *)

\* the allowed autoresponds of p for the key of entry j, before j
AllowedBefore(p, j) ==
    {i \in Autoresponds(p) :
        i < j /\ log[p][i].key = log[p][j].key /\ log[p][i].ret = SIEVE_OK}

\* C4: from an empty ledger, a vacation for a hash and a recipient is
\* allowed when none was allowed before; after one allowed at time t0 with
\* window W, the next one is suppressed (SIEVE_DONE, no send_response, no
\* mark) at every time before t0 + W and allowed at t0 + W and at every time
\* after it.
C4_VacationWindow ==
    \A j \in Autoresponds(Main) :
        LET e == log[Main][j]
            before == AllowedBefore(Main, j)
        IN  /\ e.ret \in {SIEVE_OK, SIEVE_DONE}
            /\ before = {} => e.ret = SIEVE_OK
            /\ before # {} =>
                 LET i == CHOOSE x \in before : \A y \in before : y <= x
                     last == log[Main][i]
                 IN  /\ e.at < last.at + last.ctx.seconds
                          => e.ret = SIEVE_DONE
                     /\ e.at >= last.at + last.ctx.seconds
                          => e.ret = SIEVE_OK
            /\ e.ret = SIEVE_DONE =>
                 /\ ~e.marked
                 /\ (j < Len(log[Main])
                       => log[Main][j+1].verb # "send_response")

\* one hash and recipient, window W = 2: allowed at t0 and answered,
\* suppressed at t0 + W - 1, allowed again at t0 + W + 1
C4_Witness ==
    \E i, j, k \in Autoresponds(Main) :
        LET a == log[Main][i]
            b == log[Main][j]
            c == log[Main][k]
        IN  /\ i < j /\ j < k
            /\ a.key = b.key /\ b.key = c.key
            /\ a.ctx.seconds = 2 /\ b.ctx.seconds = 2 /\ c.ctx.seconds = 2
            /\ a.ret = SIEVE_OK
            /\ \E o \in outbox : o.kind = "response" /\ o.n = i + 1
            /\ b.at = a.at + 2 - 1 /\ b.ret = SIEVE_DONE
            /\ c.at = a.at + 2 + 1 /\ c.ret = SIEVE_OK

\* the responses handed to the transport
SentResponses(p) == {o \in outbox : o.kind = "response" /\ o.by = p}

\* C5 as stated: the key of a vacation is marked only after the response
\* has been composed and sent: whenever the ledger holds a mark of the key
\* of an autorespond, the response of that vacation has been sent.
C5_AsStated ==
    \A i \in Autoresponds(Main) :
        log[Main][i].key \in DOMAIN ledger =>
            \E j \in Autoresponds(Main) :
                /\ log[Main][j].key = log[Main][i].key
                /\ \E o \in SentResponses(Main) : o.n = j + 1

\* C5, amended: the key (hash-derived id, recipient identity, empty date)
\* is marked with now + configured_seconds by autorespond itself, exactly
\* when it allows the response and before the response is composed and
\* sent: every allowed autorespond has marked its key, every suppressed one
\* has not, every response sent follows an autorespond that allowed it and
\* marked the key, and the mark stands whether or not the send succeeds.
C5_MarkWhenAllowed ==
    /\ \A i \in Autoresponds(Main) :
          LET e == log[Main][i]
              later == {k \in Autoresponds(Main) :
                          /\ k > i /\ log[Main][k].key = e.key
                          /\ log[Main][k].ret = SIEVE_OK}
          IN  /\ e.marked <=> e.ret = SIEVE_OK
              /\ (e.ret = SIEVE_OK /\ later = {}) =>
                    /\ e.key \in DOMAIN ledger
                    /\ ledger[e.key] = e.at + e.ctx.seconds
    /\ \A j \in Responses(Main) :
          /\ j - 1 \in Autoresponds(Main)
          /\ log[Main][j-1].ret = SIEVE_OK
          /\ log[Main][j-1].marked
    /\ \A o \in SentResponses(Main) :
          \/ o.n \in Responses(Main)
          \/ /\ o.n = Len(log[Main]) + 1
             /\ act[Main].verb = "send_response"
             /\ log[Main][o.n - 1].verb = "autorespond"
             /\ log[Main][o.n - 1].marked
    /\ (pc[Main] = "autorespond_mark" /\ act[Main].seen = 0)
          => act[Main].key \notin DOMAIN ledger

\* a vacation whose response could not be sent: the key is marked all the
\* same
C5_Witness ==
    \E j \in Responses(Main) :
        /\ log[Main][j].ret = SIEVE_FAIL
        /\ log[Main][j-1].key \in DOMAIN ledger
        /\ ledger[log[Main][j-1].key]
              = log[Main][j-1].at + log[Main][j-1].ctx.seconds
        /\ SentResponses(Main) = {}

----------------------------------------------------------------------------
(* Properties of fileinto under concurrent deliveries *)

\* C11: when two fileinto executions race to autocreate the same folder, the
\* one whose create call is answered "already exists" treats that as
\* success, retries the append and returns Ok; no execution returns Fail
\* because the other created the folder first.
C11_AsStated ==
    \A p \in Procs : \A i \in Fileintos(p) :
        log[p][i].rc = IMAP_MAILBOX_EXISTS =>
            /\ log[p][i].nappend = 2
            /\ log[p][i].ret = SIEVE_OK

----------------------------------------------------------------------------
(* Properties of the header edits and the clone *)

\* the edits of p that changed the header (returned SIEVE_OK)
EditsDone(p) ==
    {i \in DOMAIN log[p] :
        log[p][i].verb \in {"addheader", "deleteheader"}
          /\ log[p][i].ret = SIEVE_OK}

\* the fileinto, keep and redirect actions of p
StoreActions(p) ==
    {i \in DOMAIN log[p] : log[p][i].verb \in {"fileinto", "keep", "redirect"}}

EditedBefore(p, j) == \E i \in EditsDone(p) : i < j

\* the messages action j of p appended, or gave to send_forward
CopiesOf(p, j) ==
    {a.content : a \in {x \in appended : x.by = p /\ x.n = j}}
      \cup {o.given : o \in {x \in outbox : x.kind = "forward"
                                            /\ x.by = p /\ x.n = j}}

\* the header names of the inbound message and of the edits
EditedNames == HeaderSet(OrigHeaders) \cup {"X-New", "Return-Path"}

\* the clones made by the handlers of p that have run or are running
ClonesStaged(p) ==
    Cardinality({i \in DOMAIN log[p] : log[p][i].staged})
      + (IF act[p].staged THEN 1 ELSE 0)

\* C12 as stated: the clone is created exactly once per script execution, at
\* the first header edit: once a header was edited, with or without
\* store-affecting actions after it, one clone has been created in total.
C12_AsStated ==
    (pc[Main] = "idle" /\ EditsDone(Main) # {}) => stage[Main].made = 1

\* C12, amended: no clone is created by a header edit; one is created by
\* each fileinto, keep or redirect that runs after a header edit, except a
\* redirect that the ledger stopped and an action whose stage file could
\* not be opened: that action returns SIEVE_FAIL and has delivered and sent
\* nothing.  So a script that edits a header and then runs k such actions
\* creates one clone for each of them that was not stopped and got its
\* stage file, k at most, and a script that edits a header and runs no such
\* action creates none.
C12_CloneForEachAction ==
    /\ stage[Main].made = ClonesStaged(Main)
    /\ \A j \in DOMAIN log[Main] :
          LET e == log[Main][j]
          IN  /\ e.staged => (j \in StoreActions(Main) /\ EditedBefore(Main, j))
              /\ (j \in StoreActions(Main) /\ EditedBefore(Main, j)
                    /\ ~e.staged)
                   => \/ e.ret = SIEVE_FAIL /\ e.nappend = 0 /\ ~e.opened
                      \/ e.verb = "redirect" /\ e.seen # 0

\* a header edit followed by two keeps: two clones
C12_Witness ==
    /\ Len(log[Main]) = 3
    /\ 1 \in EditsDone(Main)
    /\ log[Main][2].verb = "keep" /\ log[Main][2].staged
    /\ log[Main][3].verb = "keep" /\ log[Main][3].staged
    /\ stage[Main].made = 2

\* C13 as stated: after a header edit followed by keep, what the script
\* engine reads from the inbound message (header lookups, size, body) is
\* the same as before the edit.
C13_AsStated ==
    (\E i \in EditsDone(Main), j \in DOMAIN log[Main] :
         i < j /\ log[Main][j].verb = "keep")
      => /\ \A head \in HeaderSet(OrigHeaders) \cup {"X-New"} :
               getheader(Main, head)
                  = [ret |-> IF msg_getheader(OrigHeaders, head) # << >>
                               THEN SIEVE_OK ELSE SIEVE_FAIL,
                     body |-> msg_getheader(OrigHeaders, head)]
         /\ mfile[Main] = OrigFile

RECURSIVE HeaderCount(_, _, _)
\* how many instances of header head the edits before entry j of p leave
HeaderCount(p, j, head) ==
    IF j <= 1 THEN Cardinality(Instances(OrigHeaders, head))
    ELSE LET n == HeaderCount(p, j - 1, head)
             e == log[p][j - 1]
         IN  IF j - 1 \notin EditsDone(p) \/ e.ctx.head # head THEN n
             ELSE IF e.ctx.op = "addheader" THEN n + 1
             ELSE IF e.ctx.index = 0 THEN 0
             ELSE IF n >= 1 THEN n - 1 ELSE n

\* C14: every fileinto, keep or redirect that runs after a header edit
\* delivers or forwards a clone whose header block has all the edits made
\* up to that action; every one that runs before any edit uses the inbound
\* message as it is and creates no clone.
C14_ActionsUseEditedClone ==
    \A j \in StoreActions(Main) :
        LET e == log[Main][j]
        IN  /\ ~EditedBefore(Main, j) =>
                 /\ ~e.staged
                 /\ \A c \in CopiesOf(Main, j) :
                       c = [hdrs |-> HeaderSet(OrigHeaders),
                            body |-> OrigFile.body]
            /\ EditedBefore(Main, j) =>
                 /\ CopiesOf(Main, j) # {} => e.staged
                 /\ \A c \in CopiesOf(Main, j) :
                       /\ c.hdrs = {h \in EditedNames :
                                       HeaderCount(Main, j, h) > 0}
                       /\ c.body = OrigFile.body
            \* the transport gets the message without its Return-Path lines
            /\ \A o \in outbox :
                  (o.kind = "forward" /\ o.by = Main /\ o.n = j)
                    => /\ o.content.hdrs = o.given.hdrs \ {"Return-Path"}
                       /\ o.content.body = o.given.body

\* X-New was added, Subject deleted, then the message was delivered or
\* forwarded: the copy has From and X-New
C14_Witness ==
    /\ Len(log[Main]) = 3
    /\ log[Main][1].ctx = [op |-> "addheader", head |-> "X-New",
                           body |-> "v", index |-> -1]
    /\ log[Main][2].ctx = [op |-> "deleteheader", head |-> "Subject",
                           body |-> NULL, index |-> 0]
    /\ 3 \in StoreActions(Main) /\ log[Main][3].staged
    /\ CopiesOf(Main, 3) = {[hdrs |-> {"From", "X-New"}, body |-> "text"]}

\* C15: every clone is torn down before the handler that made it returns,
\* on the success path and on every failure path: no clone is live between
\* the handlers or when the script has ended, and at most one is live at
\* any moment.
C15_CloneTornDown ==
    /\ stage[Main].live \in {0, 1}
    /\ pc[Main] = "idle" => stage[Main].live = 0
    /\ stage[Main].live = 1 =>
          /\ pc[Main] \in {"fileinto_deliver", "fileinto_create",
                          "fileinto_annotate", "fileinto_retry"}
          /\ act[Main].staged

\* a fileinto with a clone whose autocreation or second append failed, and a
\* redirect with a clone whose send failed, have returned: no clone is live
C15_Witness ==
    /\ pc[Main] = "idle" /\ stage[Main].live = 0
    /\ \E i, j \in DOMAIN log[Main] :
          /\ log[Main][i].verb = "fileinto" /\ log[Main][i].staged
          /\ log[Main][i].ret = SIEVE_FAIL /\ log[Main][i].ncreate = 1
          /\ log[Main][j].verb = "redirect" /\ log[Main][j].staged
          /\ log[Main][j].ret = SIEVE_FAIL

----------------------------------------------------------------------------
(* Properties of the duplicate test *)

\* the handler that returns in this step, if one does
Returned(p) == Len(log'[p]) = Len(log[p]) + 1

LastReturned(p) == log'[p][Len(log'[p])]

\* the key the claim names for a call with context dtc
C16_Key(dtc) == << dtc.id, "." \o user[Main] \o ".sieve.", "" >>

C16_Step ==
    Returned(Main) =>
       LET e == LastReturned(Main)
           key == C16_Key(e.ctx)
       IN  /\ e.verb = "duplicate_check" =>
                /\ ledger' = ledger
                /\ (e.ret = 1) <=> (key \in DOMAIN ledger /\ ledger[key] > now)
                /\ e.ret \in {0, 1}
           /\ e.verb = "duplicate_track" =>
                /\ e.ret = SIEVE_OK
                /\ DOMAIN ledger' = DOMAIN ledger \cup {key}
                /\ ledger'[key] = now + e.ctx.seconds
                /\ \A k \in DOMAIN ledger : k # key => ledger'[k] = ledger[k]

\* C16: duplicate-check answers "duplicate" exactly when the ledger has an
\* entry for (the caller's id, the sieve db of the recipient, empty date)
\* that expires strictly after the current time, and leaves the ledger as
\* it is; duplicate-track writes now + seconds for that key, whatever was
\* there, and returns Ok.
C16_DuplicateCheckAndTrack == [][C16_Step]_vars

\* a track with seconds 2 whose key a check one second later found active,
\* with the record still in the ledger
C16_Witness ==
    /\ Len(log[Main]) = 2
    /\ log[Main][1].verb = "duplicate_track" /\ log[Main][1].ctx.seconds = 2
    /\ log[Main][2].verb = "duplicate_check"
    /\ log[Main][2].ctx.id = log[Main][1].ctx.id
    /\ log[Main][2].at = log[Main][1].at + 1
    /\ log[Main][2].ret = 1
    /\ ledger[C16_Key(log[Main][1].ctx)] = log[Main][1].at + 2

----------------------------------------------------------------------------
(* Properties of run_sieve *)

\* the script of the recipient was not found or did not load
Unavailable(e) == e.ctx.find # 0 \/ e.ctx.load # SIEVE_OK

C17_Step ==
    /\ (log[Main] = << >> /\ Returned(Main)) =>
          LET e == LastReturned(Main)
          IN  Unavailable(e) =>
                 /\ e.verb = "run_sieve" /\ e.ret = 1
                 /\ ledger' = ledger /\ outbox' = outbox
                 /\ mailboxes' = mailboxes /\ appended' = appended
                 /\ annotations' = annotations
    /\ (log[Main] # << >> /\ Unavailable(log[Main][1])) =>
          \* run_sieve has returned: nothing of the script runs
          UNCHANGED vars

\* C17: when the script of the recipient is not found or does not load,
\* run_sieve returns 1 (do the default delivery), no action handler has
\* run or runs, and the ledger, the mailbox store and the transport are as
\* they were.
C17_NoScriptNoEffect == [][C17_Step]_vars

\* the script was found and failed to load: run_sieve returned 1 and
\* nothing else is in the history
C17_Witness ==
    /\ Len(log[Main]) = 1
    /\ log[Main][1].verb = "run_sieve" /\ log[Main][1].ret = 1
    /\ log[Main][1].ctx = [find |-> 0, load |-> SIEVE_FAIL]
    /\ ledger = EmptyLedger /\ outbox = {} /\ appended = {}

----------------------------------------------------------------------------
(* Properties of a script run whose actions fail *)

\* the handlers of p that returned SIEVE_FAIL
Failed(p) == {j \in DOMAIN log[p] : log[p][j].ret = SIEVE_FAIL}

\* what action i of p did is in place: the message it appended, the folder
\* it created, the message it sent and the key it marked
EffectsInPlace(p, i) ==
    LET e == log[p][i]
    IN  /\ e.verb \in {"keep", "fileinto"} =>
             \E a \in appended : a.by = p /\ a.n = i /\ a.mbox = e.target
        /\ (e.verb = "fileinto" /\ e.ncreate = 1) => e.target \in mailboxes
        /\ e.verb = "redirect" /\ e.called =>
             \E o \in outbox : o.kind = "forward" /\ o.by = p /\ o.n = i
        /\ e.marked => (e.key \in DOMAIN ledger /\ ledger[e.key] >= e.at)

\* C18: no action undoes an earlier one: after an action of the script has
\* returned Fail, every send, append, mailbox creation and ledger mark of
\* the actions that returned Ok before it is still in place.
C18_NoRollback ==
    \A j \in Failed(Main) :
        \A i \in 1 .. (j - 1) :
            log[Main][i].ret = SIEVE_OK => EffectsInPlace(Main, i)

\* a fileinto appended into a folder it created, a redirect sent and marked,
\* then keep failed
C18_Witness ==
    /\ Len(log[Main]) = 3
    /\ log[Main][1].verb = "fileinto" /\ log[Main][1].ret = SIEVE_OK
    /\ log[Main][1].ncreate = 1
    /\ log[Main][2].verb = "redirect" /\ log[Main][2].ret = SIEVE_OK
    /\ log[Main][2].called /\ log[Main][2].marked
    /\ log[Main][3].verb = "keep" /\ log[Main][3].ret = SIEVE_FAIL
    /\ EffectsInPlace(Main, 1) /\ EffectsInPlace(Main, 2)

----------------------------------------------------------------------------
(* Properties of the key of redirect *)

\* the redirects of messages that have a message-id, as (execution, entry)
KeyedRedirects ==
    UNION {{<< p, i >> : i \in {k \in DOMAIN log[p] :
                                   log[p][k].verb = "redirect"}} :
             p \in {q \in Procs : msg[q].id # NULL}}

\* C19 as stated: redirect uses the key (message-id, target address, empty
\* date), so two redirects of messages with the same message-id to the same
\* address use the same key whatever the Date of the messages.
C19_AsStated ==
    /\ \A x \in KeyedRedirects :
          log[x[1]][x[2]].key
             = << msg[x[1]].id, log[x[1]][x[2]].ctx.addr, "" >>
    /\ \A x, y \in KeyedRedirects :
          (/\ msg[x[1]].id = msg[y[1]].id
           /\ log[x[1]][x[2]].ctx.addr = log[y[1]][y[2]].ctx.addr)
            => log[x[1]][x[2]].key = log[y[1]][y[2]].key

\* C19, amended: redirect uses the key whose id is "<message-id>-<address>",
\* whose target is the sieve db of the script's owner and whose date is the
\* Date of the message; two redirects for one owner of messages with the
\* same message-id to the same address use the same key exactly when the
\* messages have the same Date.
C19_KeyHasDate ==
    /\ \A x \in KeyedRedirects :
          log[x[1]][x[2]].key
             = << msg[x[1]].id \o "-" \o log[x[1]][x[2]].ctx.addr,
                  "." \o user[x[1]] \o ".sieve.",
                  msg[x[1]].date >>
    /\ \A x, y \in KeyedRedirects :
          (/\ msg[x[1]].id = msg[y[1]].id
           /\ user[x[1]] = user[y[1]]
           /\ log[x[1]][x[2]].ctx.addr = log[y[1]][y[2]].ctx.addr)
            => (log[x[1]][x[2]].key = log[y[1]][y[2]].key
                  <=> msg[x[1]].date = msg[y[1]].date)

\* two messages with one message-id and different dates were redirected for
\* one owner to one address: both were sent and marked, under different keys
C19_Witness ==
    /\ user["d1"] = user["d2"] /\ msg["d1"].id = msg["d2"].id
    /\ msg["d1"].date # msg["d2"].date
    /\ \E x, y \in KeyedRedirects :
          LET e == log[x[1]][x[2]]
              f == log[y[1]][y[2]]
          IN  /\ x[1] = "d1" /\ y[1] = "d2"
              /\ e.ctx.addr = f.ctx.addr
              /\ e.marked /\ f.marked /\ e.called /\ f.called
              /\ e.key # f.key
              /\ Cardinality({o \in outbox : o.kind = "forward"}) = 2

----------------------------------------------------------------------------
(* Properties of the three uses of the ledger *)

\* an entry before j of p with the given verb marked the key of entry j
MarkedBefore(p, j, verb) ==
    \E i \in 1 .. (j - 1) :
        /\ log[p][i].verb = verb
        /\ log[p][i].marked
        /\ log[p][i].key = log[p][j].key

\* C20 as stated: redirect, vacation and the duplicate test never share a
\* key of the ledger: a check of one use finds a mark only if the same use
\* wrote it; in particular a redirect is treated as already delivered only
\* after a redirect marked its key, never after a duplicate-track.
C20_AsStated ==
    \A j \in DOMAIN log[Main] :
        LET e == log[Main][j]
        IN  /\ (e.verb = "redirect" /\ e.seen # 0)
                 => MarkedBefore(Main, j, "redirect")
            /\ (e.verb = "autorespond" /\ e.seen # 0)
                 => MarkedBefore(Main, j, "autorespond")
            /\ (e.verb = "duplicate_check" /\ e.seen # 0)
                 => MarkedBefore(Main, j, "duplicate_track")

----------------------------------------------------------------------------
(* Properties of a suppressed vacation *)

\* the suppressed autoresponds of p
Suppressed(p) == {j \in Autoresponds(p) : log[p][j].ret = SIEVE_DONE}

\* C21: a suppressed vacation (the ledger has an entry of its key that
\* expires in the future) sends nothing and leaves the expiry of the entry
\* as it is: triggering again inside the window does not extend the window.
C21_SuppressedLeavesWindow ==
    \A j \in Suppressed(Main) :
        LET e == log[Main][j]
            later == {k \in Autoresponds(Main) :
                        /\ k > j /\ log[Main][k].key = e.key
                        /\ log[Main][k].ret = SIEVE_OK}
        IN  /\ e.seen # 0 /\ e.at < e.seen
            /\ ~e.marked
            /\ \A o \in SentResponses(Main) : o.n # j /\ o.n # j + 1
            /\ e.key \in DOMAIN ledger
            /\ later = {} => ledger[e.key] = e.seen

\* allowed at t0 with window 2, suppressed twice inside the window: the
\* entry still expires at t0 + 2
C21_Witness ==
    \E i, j, k \in Autoresponds(Main) :
        /\ i < j /\ j < k /\ k = Len(log[Main])
        /\ log[Main][i].ret = SIEVE_OK /\ log[Main][i].ctx.seconds = 2
        /\ j \in Suppressed(Main) /\ k \in Suppressed(Main)
        /\ log[Main][j].key = log[Main][i].key
        /\ log[Main][k].key = log[Main][i].key
        /\ log[Main][k].at = log[Main][i].at + 1
        /\ ledger[log[Main][i].key] = log[Main][i].at + 2

----------------------------------------------------------------------------
(* Properties of the target of fileinto *)

\* the internal name of a folder as the claim's reader writes it
C22_Name(ext) ==
    IF user[Main] = NULL THEN ext ELSE "user." \o user[Main] \o "." \o ext

\* the folder the claim names for a fileinto with context fc, by the
\* mailbox list at the time of the lookup
C22_Folder(fc) ==
    IF fc.specialuse # NULL /\ C22_Name(fc.specialuse) \in mailboxes
      THEN C22_Name(fc.specialuse) ELSE C22_Name(fc.mailbox)

C22_Step ==
    \* the step in which sieve_fileinto chooses intname
    /\ (pc[Main] = "idle" /\ pc'[Main] = "fileinto_deliver")
          => act'[Main].target = C22_Folder(act'[Main].ctx)
    \* a fileinto that returns before it has chosen has delivered nothing
    /\ (pc[Main] = "idle" /\ Returned(Main)
          /\ LastReturned(Main).verb = "fileinto")
          => /\ LastReturned(Main).target = NULL
             /\ store' = store
    \* the later steps of the handler use the same intname
    /\ pc[Main] \in {"fileinto_deliver", "fileinto_create",
                    "fileinto_annotate", "fileinto_retry"}
          => /\ \A a \in appended' \ appended : a.mbox = act[Main].target
             /\ \A mb \in mailboxes' \ mailboxes : mb = act[Main].target
             /\ \A an \in annotations' \ annotations :
                   an[1] = act[Main].target
             /\ Returned(Main)
                   => LastReturned(Main).target = act[Main].target
             /\ ~Returned(Main) => act'[Main].target = act[Main].target

\* C22: fileinto delivers to the special-use folder when one was requested
\* and its lookup succeeds, and to the literal named folder otherwise (none
\* requested, or the requested one is not there); that one folder is the
\* target of every append, of the creation and of the annotation of the
\* action.
C22_OneTargetFolder == [][C22_Step]_vars

\* a special-use folder was requested and was not there: the literal folder
\* was created, annotated and appended to
C22_Witness ==
    /\ Len(log[Main]) = 1 /\ user[Main] = "u1"
    /\ LET e == log[Main][1]
       IN  /\ e.verb = "fileinto" /\ e.ret = SIEVE_OK
           /\ e.ctx.specialuse = "\\Junk" /\ e.ctx.mailbox = "Junk"
           /\ e.target = "user.u1.Junk" /\ e.ncreate = 1
           /\ e.target \in mailboxes
           /\ << e.target, "/specialuse", "\\Junk" >> \in annotations
           /\ \E a \in appended : a.mbox = e.target

----------------------------------------------------------------------------
(* Properties of the edited_header flag *)

\* the header actions of p
HeaderActions(p) ==
    {i \in DOMAIN log[p] : log[p][i].verb \in {"addheader", "deleteheader"}}

\* a header action with its name and, for addheader, its value
Accepted(ed) ==
    ed.head # NULL /\ (ed.op = "addheader" => ed.body # NULL)

\* C23: the edited_header flag of a script execution is false when the
\* execution starts, true from the first addheader or deleteheader that
\* succeeds to the end of the execution, and a header action rejected for
\* a missing name or value leaves it as it is.
C23_EditedFlag ==
    /\ (Len(log[Main]) <= 1 /\ pc[Main] = "idle") => ~edited[Main]
    /\ \A i \in HeaderActions(Main) :
          log[Main][i].ret
             = IF Accepted(log[Main][i].ctx) THEN SIEVE_OK ELSE SIEVE_FAIL
    /\ edited[Main] <=>
          \E i \in HeaderActions(Main) : Accepted(log[Main][i].ctx)

\* an addheader without a value was rejected and left the flag false; a
\* deleteheader then set it, and it is set when run_sieve has returned
C23_Witness ==
    /\ Len(log[Main]) = 4
    /\ log[Main][2].verb = "addheader" /\ log[Main][2].ctx.body = NULL
    /\ log[Main][2].ret = SIEVE_FAIL
    /\ log[Main][3].verb = "deleteheader" /\ log[Main][3].ret = SIEVE_OK
    /\ log[Main][4].verb = "run_sieve"
    /\ edited[Main]

----------------------------------------------------------------------------
(* Properties of the envelope of a redirect *)

\* the messages redirect handed to the transport
Forwards(p) == {o \in outbox : o.kind = "forward" /\ o.by = p}

\* C24: the envelope sender of a redirected message is the rewritten
\* return path when address rewriting is configured and the rewrite
\* succeeds, otherwise the return path of the message when it is present
\* and not empty, otherwise the null sender "<>".
C24_EnvelopeSender ==
    \A o \in Forwards(Main) :
        LET rp == msg[Main].return_path
        IN  o.from = IF config.srs /\ o.srs THEN "SRS0=" \o rp
                     ELSE IF rp # NULL /\ rp # "" THEN rp
                     ELSE "<>"

\* rewriting is configured and failed for one redirect, which went out
\* with the return path of the message; another went out rewritten
C24_Witness ==
    /\ config.srs
    /\ \E o \in Forwards(Main) : ~o.srs /\ o.from = "s@x"
    /\ \E o \in Forwards(Main) : o.srs /\ o.from = "SRS0=s@x"

----------------------------------------------------------------------------
(* Properties of the error message of a failed action *)

\* the handlers of p that hand an error message to the script engine
Reporting(p) ==
    {j \in DOMAIN log[p] :
        log[p][j].verb \in {"redirect", "reject", "fileinto", "keep",
                            "send_response"}}

\* C25 as stated: every handler that returns Fail has set the error
\* message before it returns, on each path of redirect, reject, fileinto,
\* keep and send_response.
C25_AsStated ==
    \A j \in Reporting(Main) :
        log[Main][j].ret = SIEVE_FAIL => log[Main][j].err # NULL

----------------------------------------------------------------------------
(* Properties of the fcc copy of a vacation response *)

\* the responses of the delivery, returned or under way
FccEntries ==
    {log[Main][j] : j \in Responses(Main)}
       \cup (IF act[Main].verb = "send_response" THEN {act[Main]} ELSE {})

\* the folders that do_fcc created
Created == {e.target : e \in {x \in FccEntries : x.rc = NOERR}}

\* C26: a copy of a vacation response is written to the store only when
\* the response was sent and an fcc mailbox is configured; when the send
\* fails nothing is appended and no folder is created; a missing fcc folder
\* is created only under the autocreate policy of fileinto (any-folder
\* override, listed autocreate folder, or the create flag).
C26_FccAfterSend ==
    /\ \A a \in appended :
          /\ a.by = Main /\ a.n \in Responses(Main)
          /\ log[Main][a.n].ret = SIEVE_OK /\ log[Main][a.n].called
          /\ log[Main][a.n].sendr = NOERR
          /\ log[Main][a.n].ctx.fcc.mailbox # NULL
          /\ a.mbox = log[Main][a.n].target
          /\ a.mbox \in {"user.u1." \o log[Main][a.n].ctx.fcc.mailbox,
                         "user.u1.\\Junk"}
          /\ a.mbox = "user.u1.\\Junk"
                => log[Main][a.n].ctx.fcc.specialuse = "\\Junk"
          /\ log[Main][a.n].r2 = NOERR /\ log[Main][a.n].filed
    /\ \A e \in FccEntries :
          /\ e.target # NULL =>
                /\ e.sendr = NOERR /\ e.marked
                /\ e.ctx.fcc.mailbox # NULL
          /\ e.rc # NULL => e.r1 = IMAP_MAILBOX_NONEXISTENT
          /\ e.rc = NOERR => e.ncreate = 1
          /\ e.r2 = NOERR => e.r1 = NOERR \/ e.rc = NOERR
          /\ e.filed => e.r2 = NOERR
          /\ e.filed <=> \E a \in appended : a.by = Main /\ a.mbox = e.target
          /\ e.ncreate = 1 =>
                \/ config.anysievefolder
                \/ \E n \in DOMAIN config.autocreate_folders :
                      e.target
                         = "user.u1." \o config.autocreate_folders[n]
                \/ e.ctx.fcc.do_create
          /\ e.sendr # NOERR =>
                /\ e.target = NULL /\ e.ncreate = 0 /\ e.nappend = 0
                /\ appended = {} /\ Created = {}
    /\ mailboxes \subseteq {"user.u1.Work", "user.u1.\\Junk"} \cup Created
    /\ \A ann \in annotations :
          ann[1] \in Created /\ ann[3] = "\\Junk"

\* the response was sent, the fcc folder was missing and the create flag
\* alone permitted its creation: the copy is in the new folder
C26_Witness ==
    /\ ~config.anysievefolder /\ config.autocreate_folders = << >>
    /\ \E j \in Responses(Main) :
          /\ log[Main][j].ret = SIEVE_OK
          /\ log[Main][j].ctx.fcc = [mailbox |-> "Sent", specialuse |-> NULL,
                                     do_create |-> TRUE]
          /\ "user.u1.Sent" \in mailboxes
          /\ \E a \in appended : a.mbox = "user.u1.Sent" /\ a.n = j

----------------------------------------------------------------------------
(* dump_header: one header of the cache written to the clone, folded       *)

SP == 32
HT == 9

\* the modulus of size_t arithmetic.  The build has 2^64 (2^32 on a 32-bit
\* one); 2^30 is the power of two the integers of the model checker hold,
\* and like the others it lies above every length that occurs
SIZE_WRAP == 1073741824

\* isblank()
isblank(c) == c \in {SP, HT}

\* the header names "X" and "Subject", and a name of 77 bytes 'N'
HeaderNames ==
    { << 88 >>, << 83, 117, 98, 106, 101, 99, 116 >>, [i \in 1..77 |-> 78] }

\* header values: three atoms of bytes 'x', between them nothing, a space, a
\* double space or a tab, with or without a space in front; the empty value,
\* values of blanks only, values that end in a blank
HeaderValues ==
    LET Word(n) == [i \in 1..n |-> 120]
        WordLens == {4, 36, 70, 76}
        Seps == { << >>, << SP >>, << SP, SP >>, << HT >> }
        Leads == { << >>, << SP >> }
    IN  { l \o Word(a) \o s1 \o Word(b) \o s2 \o Word(c) :
            l \in Leads, a \in WordLens, s1 \in Seps, b \in WordLens,
            s2 \in Seps, c \in WordLens }
        \cup { << >>, << SP >>, << HT, SP >>, Word(4) \o << SP >>,
               Word(76) \o << SP >> \o Word(4) \o << HT >> }

\* charset_encode_mimeheader(value, strlen(value), 0): a value of ASCII
\* bytes is copied; any other value becomes one Q-encoded word
charset_encode_mimeheader(value) ==
    IF \A i \in DOMAIN value : isascii(value[i]) THEN value
    ELSE << 61, 63, 85, 84, 70, 45, 56, 63, 81, 63 >>
         \o charset_qpencode_mimebody(value) \o << 63, 61 >>

\* "while (isblank(*++p));": the first position after p that is not blank
RECURSIVE skip_fws(_, _)
skip_fws(mimehdr, p) ==
    IF p + 1 <= Len(mimehdr) /\ isblank(mimehdr[p + 1])
      THEN skip_fws(mimehdr, p + 1)
      ELSE p + 1

\* the first position from p on that holds a space or a tab, the position
\* past the end when there is none: the bytes the scan passes over untouched
next_blank(mimehdr, p) ==
    LET at == {k \in p..Len(mimehdr) : isblank(mimehdr[k])}
    IN  IF at = {} THEN Len(mimehdr) + 1
        ELSE CHOOSE k \in at : \A m \in at : k <= m

\* "for (; *p; p++)": the scan of one chunk from position from.  It stops at
\* a tab and at the first of two spaces; a single space is tracked in last_sp
\* (0 is NULL) when the rest of the value is longer than maxlen: the first
\* one found, then every later one at an offset of at most maxlen.
\* Position p is offset p - 1 from mimehdr; past the end is the NUL.
RECURSIVE scan(_, _, _, _)
scan(mimehdr, from, last_sp, maxlen) ==
    LET p == next_blank(mimehdr, from)
    IN  IF p > Len(mimehdr) THEN [p |-> p, last_sp |-> last_sp]
        ELSE IF mimehdr[p] = HT THEN [p |-> p, last_sp |-> last_sp]
        ELSE IF p + 1 <= Len(mimehdr) /\ mimehdr[p + 1] = SP
          THEN [p |-> p, last_sp |-> last_sp]
        ELSE IF Len(mimehdr) <= maxlen
          THEN scan(mimehdr, p + 1, last_sp, maxlen)
        ELSE IF last_sp = 0
          THEN scan(mimehdr, p + 1, p, maxlen)
        ELSE IF p - 1 <= maxlen
          THEN scan(mimehdr, p + 1, p, maxlen)
        ELSE scan(mimehdr, p + 1, last_sp, maxlen)

\* mutant of chunk_end: the tracked space is never used
chunk_end_at_stop(mimehdr, r) == r.p

\* "if (!*p && last_sp) p = last_sp;": where the chunk ends
chunk_end(mimehdr, r) ==
    IF r.p > Len(mimehdr) /\ r.last_sp # 0 THEN r.last_sp ELSE r.p

\* "while (*mimehdr)": the chunks of the value, a fold in front of each one
\* that begins with a blank; maxlen is 78 after the first chunk
RECURSIVE fold(_, _)
fold(mimehdr, maxlen) ==
    IF mimehdr = << >> THEN << >>
    ELSE LET blank == isblank(mimehdr[1])
             p0 == IF blank THEN skip_fws(mimehdr, 1) ELSE 1
             p == chunk_end(mimehdr, scan(mimehdr, p0, 0, maxlen))
         IN  (IF blank THEN << CR, LF >> ELSE << >>)
             \o SubSeq(mimehdr, 1, p - 1)
             \o fold(SubSeq(mimehdr, p, Len(mimehdr)), 78)

\* "size_t maxlen = 78 - (strlen(name) + 2)": the difference is unsigned
\* and wraps for a name of more than 76 bytes
first_maxlen(name) == (78 - (Len(name) + 2)) % SIZE_WRAP

\* mutant of dump_header: the blanks in front of the value are skipped
\* without being written
dump_header_skipping(name, value) ==
    LET mimehdr == charset_encode_mimeheader(value)
        p == IF mimehdr # << >> /\ isblank(mimehdr[1])
               THEN skip_fws(mimehdr, 1) ELSE 1
    IN  name \o << 58, SP >>
        \o fold(SubSeq(mimehdr, p, Len(mimehdr)), first_maxlen(name))
        \o << CR, LF >>

\* dump_header(): "name: ", the folded value, CRLF
dump_header(name, value) ==
    name \o << 58, SP >>
    \o fold(charset_encode_mimeheader(value), first_maxlen(name))
    \o << CR, LF >>

\* spool_enum_hdrcache(mydata->m->hdrcache, &dump_header, f) for a cache of
\* one header
DumpHeader(p, name, value) ==
    /\ pc[p] = "idle" /\ log[p] = << >>
    /\ log' = [log EXCEPT ![p] = Append(@,
                 [BlankEntry EXCEPT !.verb = "dump_header",
                                    !.ctx = [name |-> name, value |-> value],
                                    !.composed = dump_header(name, value),
                                    !.at = now])]
    /\ UNCHANGED << pc, act, edited, ledger, outbox, now, rcptstatus,
                    outgoing_count, hdrcache, stage, given, store >>

InitDumpHeader ==
    /\ InitCommon
    /\ msg = [p \in Procs |-> [id |-> "<m1>", date |-> "d1",
                               return_path |-> "s@x"]]
    /\ user = [p \in Procs |-> "u1"]
    /\ mailboxes = {}
    /\ config = DefaultConfig

NextDumpHeader ==
    \E name \in HeaderNames, value \in HeaderValues :
       DumpHeader(Main, name, value)

SpecDumpHeader == InitDumpHeader /\ [][NextDumpHeader]_vars

----------------------------------------------------------------------------
(* C27: a long value without tab and double space folds at the last single *)
(* space that keeps the first line within 78 columns                       *)

Dumps(p) == {j \in DOMAIN log[p] : log[p][j].verb = "dump_header"}

\* no tab and no double space anywhere in the value
Plain(v) ==
    /\ \A k \in DOMAIN v : v[k] # HT
    /\ \A k \in DOMAIN v : (v[k] = SP /\ k < Len(v)) => v[k + 1] # SP

\* the single spaces before which "name: " and the value prefix take at most
\* 78 columns
Fitting(name, v) ==
    {k \in DOMAIN v : v[k] = SP /\ Len(name) + 2 + (k - 1) <= 78}

Highest(S) == CHOOSE k \in S : \A m \in S : m <= k

\* the first line written is "name: " and the value up to position k, and
\* the fold follows
FirstBreakAt(e, k) ==
    LET line == e.ctx.name \o << 58, SP >> \o SubSeq(e.ctx.value, 1, k - 1)
                \o << CR, LF >>
    IN  /\ Len(e.composed) >= Len(line)
        /\ SubSeq(e.composed, 1, Len(line)) = line

\* C27 as stated: every value of more than 78 columns without tab and double
\* space is first broken at the last single space that keeps the first line
\* within 78 columns, when there is one
C27_AsStated ==
    \A j \in Dumps(Main) :
       LET e == log[Main][j]
           v == e.ctx.value
       IN  (Len(v) > 78 /\ Plain(v) /\ Fitting(e.ctx.name, v) # {})
              => FirstBreakAt(e, Highest(Fitting(e.ctx.name, v)))

\* C27: a value of more than 78 columns without tab and double space that
\* does not begin with a space is first broken at the last single space that
\* keeps the first line within 78 columns, when there is one
C27_FoldAtLastFittingSpace ==
    \A j \in Dumps(Main) :
       LET e == log[Main][j]
           v == e.ctx.value
       IN  (Len(v) > 78 /\ Plain(v) /\ v[1] # SP
               /\ Fitting(e.ctx.name, v) # {})
              => FirstBreakAt(e, Highest(Fitting(e.ctx.name, v)))

\* "Subject", a value of 36, 36 and 76 columns joined by single spaces: the
\* first space fits, the second does not, and the line is broken at the first
C27_Witness ==
    \E j \in Dumps(Main) :
       LET e == log[Main][j]
           v == e.ctx.value
       IN  /\ Len(e.ctx.name) = 7
           /\ Len(v) = 150 /\ Plain(v)
           /\ {k \in DOMAIN v : v[k] = SP} = {37, 74}
           /\ Fitting(e.ctx.name, v) = {37}
           /\ FirstBreakAt(e, 37)

----------------------------------------------------------------------------
(* C28: a line without tab and double space before column 78 is broken at  *)
(* the nearest single space before it, whatever lies further right         *)

\* no tab and no double space in the part of the value that fits the first
\* line
EarlyPlain(name, v) ==
    \A k \in DOMAIN v :
       Len(name) + 2 + (k - 1) <= 78
          => /\ v[k] # HT
             /\ (v[k] = SP /\ k < Len(v)) => v[k + 1] # SP

\* C28 as stated: a header line of more than 78 columns without tab and
\* double space before column 78 is broken at the nearest single space before
\* column 78, also when a tab or a double space lies further right; a line
\* without any space is written unfolded
C28_AsStated ==
    \A j \in Dumps(Main) :
       LET e == log[Main][j]
           v == e.ctx.value
           name == e.ctx.name
       IN  /\ (/\ Len(name) + 2 + Len(v) > 78
               /\ v # << >> /\ ~isblank(v[1])
               /\ EarlyPlain(name, v)
               /\ Fitting(name, v) # {})
                 => FirstBreakAt(e, Highest(Fitting(name, v)))
           /\ (\A k \in DOMAIN v : ~isblank(v[k]))
                 => e.composed = name \o << 58, SP >> \o v \o << CR, LF >>

----------------------------------------------------------------------------
(* One process that sends mail: bounces, vacation responses and redirects, *)
(* delivery after delivery within one second                               *)

MaxOutgoing == 3        \* reject and send_response calls of the process

InitOutgoing ==
    /\ InitCommon
    /\ msg \in [Procs -> [id : {"<m1>"}, date : {"d1"},
                          return_path : {"", "s@x"}]]
    /\ msg["d2"].return_path = "s@x"
    /\ user = [p \in Procs |-> "u1"]
    /\ mailboxes = {}
    /\ config = DefaultConfig

\* the transport answers 0 or -1, from the open and from the send alike
NextOutgoing ==
    \/ \E rc \in RejectContexts :
            /\ Len(log[Main]) < MaxOutgoing
            /\ rc.msg = << 97 >>
            /\ SieveReject(Main, rc, NullText)
    \/ \E open_r \in {NOERR, "-1"}, send_r \in {NOERR, "-1"} :
            /\ open_r # NOERR => send_r = NOERR
            /\ RejectSend(Main, open_r, send_r)
    \/ \E src \in ResponseContexts, open_r \in {NOERR, "-1"},
          send_r \in {NOERR, "-1"} :
            /\ Len(log[Main]) < MaxOutgoing
            /\ src.fcc.mailbox = NULL /\ ~src.fcc.do_create
            /\ src.fcc.specialuse = NULL
            /\ open_r # NOERR => send_r = NOERR
            /\ SendResponse(Main, src, open_r, send_r)
    \/ ResponseMark(Main)
    \/ \E rc \in RedirectContexts :
          /\ Len(log[Main]) < MaxOutgoing
          /\ ~rc.is_ext_list
          /\ RedirectCheck(Main, rc)
    \/ \E open_r \in {NOERR, "-1"}, send_r \in {NOERR, "-1"} :
          /\ open_r # NOERR => send_r = NOERR
          /\ RedirectSend(Main, TRUE, FALSE, TRUE, open_r, send_r)
    \/ RedirectMark(Main)

SpecOutgoing == InitOutgoing /\ [][NextOutgoing]_vars

----------------------------------------------------------------------------
(* C29: the counter of the synthesized Message-IDs                         *)

\* the calls of process p that composed a bounce or a response
Composed(p) == {i \in DOMAIN log[p] : log[p][i].composed}

\* C29: the counter goes up by one with every bounce and every response the
\* process composes, sent or not, and with nothing else: the n-th message
\* composed carries n - 1, so no two messages of the process carry the same
\* value, and the Message-IDs of those sent differ
C29_CounterPerMessage ==
    /\ outgoing_count[Main]
          = Cardinality(Composed(Main))
              + (IF act[Main].composed THEN 1 ELSE 0)
    /\ act[Main].composed =>
          act[Main].count = Cardinality(Composed(Main))
    /\ \A i \in Composed(Main) :
          log[Main][i].count
             = Cardinality({j \in Composed(Main) : j < i})
    /\ \A i, j \in Composed(Main) :
          i # j => log[Main][i].count # log[Main][j].count
    /\ \A o1, o2 \in {o \in outbox : o.kind \in {"bounce", "response"}} :
          (o1.by = Main /\ o2.by = Main /\ o1.n # o2.n) => o1.id # o2.id
    /\ \A i \in DOMAIN log[Main] :
          log[Main][i].composed
             <=> \/ log[Main][i].verb = "send_response"
                 \/ /\ log[Main][i].verb = "reject"
                    /\ log[Main][i].path = "bounce"
                    /\ msg[Main].return_path \notin {NULL, ""}

\* a bounce that was refused by the transport, then a response that was
\* sent: the counter values are 0 and 1
C29_Witness ==
    \E i, j \in Composed(Main) :
       /\ i < j
       /\ log[Main][i].verb = "reject" /\ log[Main][i].ret = SIEVE_FAIL
       /\ log[Main][j].verb = "send_response"
       /\ log[Main][j].ret = SIEVE_OK
       /\ log[Main][i].count = 0 /\ log[Main][j].count = 1
       /\ outgoing_count[Main] = 2

----------------------------------------------------------------------------
(* C30: no action takes a key out of the ledger                            *)

\* C30: in every step of redirect, reject, vacation, duplicate check,
\* duplicate track, discard, keep, fileinto and notify, every key the ledger
\* holds before the step is in the ledger after it
C30_NoKeyRemoved == [][DOMAIN ledger \subseteq DOMAIN ledger']_vars

\* a vacation has marked its key, a bounce was recorded after it and a
\* duplicate track after that: the three keys are in the ledger
C30_Witness ==
    /\ Len(log[Main]) = 3
    /\ log[Main][1].verb = "autorespond" /\ log[Main][1].marked
    /\ log[Main][2].verb = "reject" /\ log[Main][2].composed
    /\ log[Main][3].verb = "duplicate_track"
    /\ log[Main][3].key # log[Main][1].key
    /\ {log[Main][1].key, log[Main][3].key} \subseteq DOMAIN ledger
    /\ Cardinality(DOMAIN ledger) = 3

----------------------------------------------------------------------------
(* C31: discard                                                            *)

Discards(p) == {j \in DOMAIN log[p] : log[p][j].verb = "discard"}

C31_Step ==
    (Returned(Main) /\ LastReturned(Main).verb = "discard") =>
       /\ LastReturned(Main).ret = SIEVE_OK
       /\ ledger' = ledger
       /\ mailboxes' = mailboxes /\ appended' = appended
       /\ annotations' = annotations
       /\ outbox' = outbox
       /\ rcptstatus' = rcptstatus
       /\ edited' = edited /\ hdrcache' = hdrcache

\* C31: a discard returns Ok, and the step in which it runs changes nothing
\* in the ledger, the mailbox store, the transport, the status slot of the
\* recipient and the headers-edited flag
C31_DiscardChangesNothing == [][C31_Step]_vars

\* a header was added and the discard that followed returned Ok with the
\* flag still set and the header still in the cache
C31_Witness ==
    /\ Len(log[Main]) = 3
    /\ log[Main][2].verb = "addheader" /\ log[Main][2].ret = SIEVE_OK
    /\ log[Main][3].verb = "discard" /\ log[Main][3].ret = SIEVE_OK
    /\ edited[Main] /\ "X-New" \in HeaderSet(hdrcache[Main])

----------------------------------------------------------------------------
(* C32: notify                                                             *)

Notifies(p) == {j \in DOMAIN log[p] : log[p][j].verb = "notify"}

\* what config_getstring(IMAPOPT_SIEVENOTIFIER) returned to call j: the
\* model's configured notifier is "log"
C32_Step ==
    (Returned(Main) /\ LastReturned(Main).verb = "notify") =>
       LET e == LastReturned(Main)
       IN  /\ e.ret = SIEVE_OK
           /\ ~e.called => e.target = NULL
           /\ e.called =>
                 e.target = IF e.ctx.method = "default" THEN "log"
                            ELSE e.ctx.method
           /\ UNCHANGED << ledger, outbox, store, rcptstatus, edited >>

\* C32: notify returns Ok in every case; without a configured notifier no
\* notifier is called; with one, the notification goes to the configured
\* notifier when the method is the literal "default" and to the method of
\* the action otherwise
C32_NotifyMethod == [][C32_Step]_vars

\* with the notifier "log" configured, one notify with the method "default"
\* went to "log" and one with the method "Default" went to "Default"
C32_Witness ==
    \E i, j \in Notifies(Main) :
       /\ log[Main][i].ctx.method = "default" /\ log[Main][i].called
       /\ log[Main][i].target = "log"
       /\ log[Main][j].ctx.method = "Default" /\ log[Main][j].called
       /\ log[Main][j].target = "Default"

----------------------------------------------------------------------------
(* C33: the errors of the transport                                        *)

\* the calls of p that went to the transport
Sendings(p) ==
    {j \in DOMAIN log[p] :
        /\ log[p][j].verb \in {"redirect", "reject", "send_response"}
        /\ log[p][j].opened}

\* smtpclient_open failed / smtpclient_send failed in call e
OpenFailed(e) == ~e.called /\ e.ret = SIEVE_FAIL
SendFailed(e) == e.called /\ e.ret = SIEVE_FAIL

\* C33 as stated: in redirect, reject and send_response a session that
\* could not be opened is reported to the script engine with an error that
\* no failed send is reported with
C33_AsStated ==
    \A i, j \in Sendings(Main) :
       (OpenFailed(log[Main][i]) /\ SendFailed(log[Main][j]))
          => log[Main][i].err # log[Main][j].err

----------------------------------------------------------------------------
(* C34: the global script of a domain and of the server                    *)

Includes(p) == {j \in DOMAIN log[p] : log[p][j].verb = "getinclude"}

\* C34 as stated: an include asked for as global by the script of a
\* recipient with a domain resolves: to the path of the server-wide global
\* script when the global script of the domain does not exist, and to the
\* path of the global script of the domain when it exists
C34_AsStated ==
    /\ \A j \in Includes(Main) :
          LET e == log[Main][j]
              indomain == "/sieve/domain/" \o dir_hash_c(e.ctx.domain) \o "/"
                          \o e.ctx.domain \o "/global/" \o e.ctx.script
                          \o ".bc"
              server == "/sieve/global/" \o e.ctx.script \o ".bc"
          IN  (e.ctx.isglobal /\ e.ctx.domain # NULL
                 /\ ~HasDotDot(e.ctx.script))
                 => /\ e.ret = 0
                    /\ indomain \notin e.ctx.files => e.target = server
                    /\ indomain \in e.ctx.files => e.target = indomain
    /\ ~(/\ pc[Main] = "crashed" /\ act[Main].verb = "getinclude"
          /\ act[Main].ctx.isglobal /\ act[Main].ctx.domain # NULL)

----------------------------------------------------------------------------
(* C35: two vacations of one key at once                                   *)

\* execution p has marked the key
MarkedBy(p, key) ==
    \E i \in Autoresponds(p) : log[p][i].key = key /\ log[p][i].marked

\* C35: the check and the mark of autorespond are two steps: while an
\* execution stands between them and no other has marked the key, the ledger
\* still answers what the check read, so a second execution that checks then
\* is allowed as well; two executions allowed for one key have both read no
\* live mark, and each response sent comes from an allowed execution
C35_VacationRace ==
    /\ \A p \in Procs :
          (pc[p] = "autorespond_mark"
             /\ \A q \in Procs : ~MarkedBy(q, act[p].key))
          => duplicate_check(ledger, act[p].key) = act[p].seen
    /\ \A i \in Autoresponds("d1"), j \in Autoresponds("d2") :
          LET a == log["d1"][i]
              b == log["d2"][j]
          IN  (a.key = b.key /\ a.ret = SIEVE_OK /\ b.ret = SIEVE_OK)
                 => a.seen = 0 /\ b.seen = 0
    /\ \A p \in Procs :
          SentResponses(p) # {}
             => \E i \in Autoresponds(p) : log[p][i].ret = SIEVE_OK

\* both executions checked before either marked: both were allowed, both
\* marked, and two responses went out inside one window
C35_Witness ==
    \E i \in Autoresponds("d1"), j \in Autoresponds("d2") :
       /\ log["d1"][i].key = log["d2"][j].key
       /\ log["d1"][i].seen = 0 /\ log["d2"][j].seen = 0
       /\ log["d1"][i].marked /\ log["d2"][j].marked
       /\ log["d1"][i].at < log["d2"][j].at + log["d2"][j].ctx.seconds
       /\ log["d2"][j].at < log["d1"][i].at + log["d1"][i].ctx.seconds
       /\ SentResponses("d1") # {} /\ SentResponses("d2") # {}

----------------------------------------------------------------------------
(* C36: the mark of the message at the end of run_sieve                    *)

\* the returns of run_sieve that follow an execution of the script
ScriptReturns(p) ==
    { i \in 2..Len(log[p]) : log[p][i].verb = "run_sieve" }

\* C36: run_sieve marks the key of the message (message-id, sieve db of the
\* recipient, date) exactly when the script returned SIEVE_OK and the
\* message has a message-id; the mark carries the time of the return, and
\* after any other return the ledger holds no entry under that key
C36_MarkIffOkAndId ==
    \A i \in ScriptReturns(Main) :
       LET e == log[Main][i]
           key == RunSieveKey(msg[Main], user[Main])
       IN  /\ e.marked <=> (e.ret = SIEVE_OK /\ msg[Main].id # NULL)
           /\ e.marked => /\ e.key = key
                          /\ duplicate_check(ledger, key) = e.at
           /\ ~e.marked => key \notin DOMAIN ledger

\* the script of a message with a message-id redirected, marked the key of
\* the redirect, and failed: the message itself is not in the ledger
C36_Witness ==
    /\ msg[Main].id # NULL
    /\ \E i \in ScriptReturns(Main) :
          /\ log[Main][i].ret = SIEVE_RUN_ERROR
          /\ ~log[Main][i].marked
    /\ DOMAIN ledger # {}
    /\ RunSieveKey(msg[Main], user[Main]) \notin DOMAIN ledger

----------------------------------------------------------------------------
(* C37: redirects of a message without a message-id                        *)

\* the redirect of entry e called send_forward
SendForwardCalled(e) == e.opened \/ e.sendr # NOERR

\* the redirects of p that have returned, for a message without message-id
UnkeyedRedirects(p) ==
    IF msg[p].id = NULL THEN Redirects(p) ELSE {}

\* C37 as stated: a redirect of a message without message-id neither reads
\* nor writes the ledger, and every one of them attempts a send
C37_AsStated ==
    /\ UnkeyedRedirects(Main) # {} => ledger = EmptyLedger
    /\ \A i \in UnkeyedRedirects(Main) :
          /\ log[Main][i].key = << >> /\ log[Main][i].seen = 0
          /\ ~log[Main][i].marked
          /\ SendForwardCalled(log[Main][i])

\* C37: a redirect of a message without message-id builds no key, reads no
\* mark and writes none, so none is answered from the ledger: each one calls
\* send_forward, except the redirect of a header-edited message whose clone
\* could not be made, which fails before it
C37_UnkeyedRedirectSends ==
    /\ UnkeyedRedirects(Main) # {} => ledger = EmptyLedger
    /\ \A i \in UnkeyedRedirects(Main) :
          LET e == log[Main][i]
          IN  /\ e.key = << >> /\ e.seen = 0 /\ ~e.marked
              /\ ~SendForwardCalled(e)
                    => edited[Main] /\ ~e.staged /\ e.ret = SIEVE_FAIL
              /\ e.ret = SIEVE_OK
                    => \E o \in outbox : o.by = Main /\ o.n = i
                                           /\ o.kind = "forward"

\* two redirects of one message without message-id to one address: both
\* were sent
C37_Witness ==
    /\ msg[Main].id = NULL
    /\ Len(log[Main]) = 2
    /\ \A i \in 1..2 : /\ log[Main][i].verb = "redirect"
                       /\ log[Main][i].ret = SIEVE_OK
                       /\ log[Main][i].called
    /\ log[Main][1].ctx = log[Main][2].ctx
    /\ Cardinality({o \in outbox : o.by = Main /\ o.kind = "forward"}) = 2
    /\ ledger = EmptyLedger

----------------------------------------------------------------------------
(* C38: the transport sessions of redirect, reject and vacation            *)

\* the session after the first n calls of a handler: "none" before a
\* successful smtpclient_open, "open" after it, "closed" after the
\* smtpclient_close of an open session
RECURSIVE SessionAfter(_, _)
SessionAfter(calls, n) ==
    IF n = 0 THEN "none"
    ELSE LET before == SessionAfter(calls, n - 1)
             call == calls[n]
         IN  IF call[1] = "smtpclient_open" /\ call[2] = NOERR THEN "open"
             ELSE IF call[1] = "smtpclient_close" /\ before = "open"
               THEN "closed"
             ELSE before

\* the handlers of p that have returned after calling the transport
Sessions(p) == { i \in DOMAIN log[p] : log[p][i].smtp # << >> }

\* C38: a handler that returns leaves no session open, whether the send
\* succeeded or failed, and it calls smtpclient_send on open sessions only,
\* never after an smtpclient_open that failed
C38_SessionsClosed ==
    \A p \in Procs : \A i \in Sessions(p) :
       LET calls == log[p][i].smtp
       IN  /\ SessionAfter(calls, Len(calls)) # "open"
           /\ \A n \in DOMAIN calls :
                 calls[n][1] = "smtpclient_send"
                    => SessionAfter(calls, n - 1) = "open"
           /\ log[p][i].called
                 <=> \E n \in DOMAIN calls : calls[n][1] = "smtpclient_send"

\* a redirect, a bounce and a vacation response, each with a failed send, a
\* successful open before it and a close after it; and a failed open
C38_Witness ==
    /\ \E i \in Sessions(Main) :
          /\ log[Main][i].verb \in {"reject", "send_response"}
          /\ log[Main][i].called /\ log[Main][i].sendr # NOERR
          /\ SessionAfter(log[Main][i].smtp, Len(log[Main][i].smtp)) = "closed"
    /\ \E i \in Sessions(Main) :
          /\ log[Main][i].verb = "redirect"
          /\ log[Main][i].called /\ log[Main][i].sendr # NOERR
          /\ SessionAfter(log[Main][i].smtp, Len(log[Main][i].smtp)) = "closed"
    /\ \E i \in Sessions(Main) :
          /\ ~log[Main][i].called
          /\ SessionAfter(log[Main][i].smtp, Len(log[Main][i].smtp)) = "none"

----------------------------------------------------------------------------
(* C39: a vacation response whose copy cannot be filed                     *)

\* the copies filed by the response of entry j of p
CopiesFiled(p, j) == {a \in appended : a.by = p /\ a.n = j}

\* C39: send_response returns SIEVE_OK exactly when the transport took the
\* message, whatever became of the fcc copy; a response that was sent is in
\* the outbox once, to the address answered, and its key is marked with the
\* time of the send, with or without a copy; the ledger holds the marks of
\* autorespond and of the responses sent and nothing else
C39_ResultFromTransport ==
    /\ \A j \in Responses(Main) :
          LET e == log[Main][j]
          IN  /\ e.ret = IF e.sendr = NOERR THEN SIEVE_OK ELSE SIEVE_FAIL
              /\ e.filed <=> CopiesFiled(Main, j) # {}
              /\ e.sendr = NOERR =>
                    /\ duplicate_check(ledger, e.key) = e.at
                    /\ \E o \in SentResponses(Main) :
                          /\ o.n = j /\ o.rcpts = {e.ctx.addr}
                          /\ \A o2 \in SentResponses(Main) : o2.n = j => o2 = o
    /\ DOMAIN ledger =
          {log[Main][i].key : i \in {n \in Autoresponds(Main) :
                                        log[Main][n].marked}}
          \cup {log[Main][j].key : j \in {n \in Responses(Main) :
                                             log[Main][n].sendr = NOERR}}
          \cup (IF act[Main].verb = "send_response" /\ act[Main].marked
                  THEN {act[Main].key} ELSE {})
    /\ act[Main].verb = "send_response" =>
          /\ act[Main].sendr = NOERR
          /\ \E o \in SentResponses(Main) :
                o.n = Len(log[Main]) + 1 /\ o.id = act[Main].outid

\* the response was sent and the copy was asked for; the folder is there
\* and append_setup answered 0, but no stage file could be opened and the
\* copy was not filed: SIEVE_OK, the response marked and sent
C39_Witness ==
    \E j \in Responses(Main) :
       /\ log[Main][j].ctx.fcc.mailbox = "Work"
       /\ log[Main][j].target \in mailboxes
       /\ log[Main][j].nappend = 1 /\ log[Main][j].r2 = NOERR
       /\ ~log[Main][j].filed
       /\ CopiesFiled(Main, j) = {}
       /\ log[Main][j].ret = SIEVE_OK
       /\ log[Main][j].key \in DOMAIN ledger
       /\ \E o \in SentResponses(Main) : o.n = j

----------------------------------------------------------------------------
(* C40: folding keeps the value                                            *)

\* the bytes one pass of "while (*mimehdr)" writes from the value
Consumed(mimehdr, maxlen) ==
    LET p0 == IF isblank(mimehdr[1]) THEN skip_fws(mimehdr, 1) ELSE 1
    IN  chunk_end(mimehdr, scan(mimehdr, p0, 0, maxlen)) - 1

\* the passes of the loop over a value, counted until the value is used up
\* or a pass consumes nothing (-1 then)
RECURSIVE Passes(_, _)
Passes(mimehdr, maxlen) ==
    IF mimehdr = << >> THEN 0
    ELSE LET n == Consumed(mimehdr, maxlen)
             rest == IF n >= 1
                       THEN Passes(SubSeq(mimehdr, n + 1, Len(mimehdr)), 78)
                       ELSE -1
         IN  IF rest = -1 THEN -1 ELSE 1 + rest

NotCRLF(c) == c \notin {CR, LF}

\* C40: for every header value the loop of dump_header ends, each pass
\* taking at least one byte of the encoded value; the output is "name: ",
\* then the encoded value with CRLF pairs put in, then CRLF: CR and LF occur
\* in pairs only, and without them the bytes after "name: " are the encoded
\* value, byte for byte
C40_FoldKeepsValue ==
    \A i \in Dumps(Main) :
       LET e == log[Main][i]
           mimehdr == charset_encode_mimeheader(e.ctx.value)
           out == e.composed
           head == Len(e.ctx.name) + 2
           body == SubSeq(out, head + 1, Len(out))
           n == Passes(mimehdr, first_maxlen(e.ctx.name))
       IN  /\ n >= 0 /\ n <= Len(mimehdr)
           /\ SubSeq(out, 1, head) = e.ctx.name \o << 58, SP >>
           /\ \A k \in DOMAIN body :
                 /\ body[k] = CR => (k < Len(body) /\ body[k + 1] = LF)
                 /\ body[k] = LF => (k > 1 /\ body[k - 1] = CR)
           /\ SelectSeq(body, NotCRLF) = mimehdr
           /\ Len(body) >= 2 /\ body[Len(body)] = LF

\* a value with a blank in front, folded there and twice more: the output
\* has four line breaks and the value is all there
C40_Witness ==
    \E i \in Dumps(Main) :
       LET e == log[Main][i]
           out == e.composed
       IN  /\ e.ctx.value # << >> /\ isblank(e.ctx.value[1])
           /\ Len(e.ctx.value) > 78
           /\ Passes(e.ctx.value, first_maxlen(e.ctx.name)) = 3
           /\ Cardinality({k \in DOMAIN out : out[k] = CR}) = 4
           /\ SelectSeq(out, NotCRLF) = e.ctx.name \o << 58, SP >> \o e.ctx.value

====
